---- MODULE Spec2Model ----
(***************************************************************************)
(* Model of the BMS monitor's debug log store (debugStore.svelte.ts): the  *)
(* recording state machine, the 29-bit frame identifier extraction and the *)
(* per-command payload decoder.                                            *)
(*                                                                         *)
(* JavaScript numbers used as 32-bit integers by the bit operators are     *)
(* modelled with their width: << wraps to a signed 32-bit value, >> is the *)
(* arithmetic shift, | and & work on two's complement.                     *)
(*                                                                         *)
(* Text produced by template strings is modelled as a record               *)
(*   [text |-> the template, nums |-> the numbers printed, names |-> the   *)
(*    strings printed]                                                     *)
(* where a number printed with toFixed(d) is held as the integer           *)
(* value * 10^d (the decoder multiplies an integer raw value by 10^-d).    *)
(***************************************************************************)
EXTENDS Integers, Sequences, FiniteSets, TLC

VARIABLES
    logs,          \* debugStore: let logs = $state<CanLogEntry[]>([])
    isRecording,   \* debugStore: let isRecording = $state(false)
    logIdCounter,  \* debugStore: let logIdCounter = $state(0)
    maxLogs,       \* debugStore: let maxLogs = $state(1000)
    clock,         \* the wall clock read by new Date()
    lastOp,        \* the operation performed by the last step
    created,       \* the entries built by the last step, in creation order
    lastId,        \* id of the entry built most recently since the process started (-1: none)
    sessionLastId, \* the same, since the last startRecording or clearLogs (-1: none)
    frameIn,       \* codec/decoder harness: the input under test
    frameOut,      \* codec/decoder harness: the result computed from frameIn
    connected,        \* bmsStore: let connected = $state(false)
    canFrameUnlisten, \* bmsStore: let canFrameUnlisten (0: null, else the listener it removes)
    pollingInterval,  \* bmsStore: let pollingInterval (0: null, else the timer id)
    bmsData,          \* bmsStore: the telemetry of bmsData (0: all null, n: response to fetch n)
    listeners,        \* the 'can-frame' listeners registered with the event system
    timers,           \* the interval timers that are set
    pending,          \* the connect, disconnect and fetchBmsData calls that are awaiting
    started,          \* how many calls, listeners and timers have been started so far
    lastLink          \* the last of: connect set connected ("connect"), disconnect returned ("disconnect")

bmsVars == <<connected, canFrameUnlisten, pollingInterval, bmsData, listeners,
             timers, pending, started, lastLink>>

vars == <<logs, isRecording, logIdCounter, maxLogs, clock, lastOp, created,
          lastId, sessionLastId, frameIn, frameOut, bmsVars>>

storeVars == <<logs, isRecording, logIdCounter, maxLogs>>
harnessVars == <<frameIn, frameOut>>

\* bmsStore before any connect: the initial values of its state, no listener,
\* no timer, no call under way
BmsIdle ==
    /\ connected = FALSE
    /\ canFrameUnlisten = 0
    /\ pollingInterval = 0
    /\ bmsData = 0
    /\ listeners = {}
    /\ timers = {}
    /\ pending = {}
    /\ started = [connect |-> 0, disconnect |-> 0, fetch |-> 0, listen |-> 0, timer |-> 0]
    /\ lastLink = "none"

-----------------------------------------------------------------------------
(* Bounds of the model *)

\* addLogEntry / logCanFrame / generateTestData are enabled while logIdCounter < MaxCounter
MaxCounter == 3
\* setMaxLogs is called with an argument in 0..MaxMaxLogsArg
MaxMaxLogsArg == 3
\* the clock takes the values 0..MaxClock
MaxClock == 1

\* Program constants
DefaultMaxLogs == 1000
MaxPayloadLen == 8

-----------------------------------------------------------------------------
(* 32-bit integer operators of JavaScript *)

\* bit i of x (two's complement, 0 <= i <= 30)
Bit(x, i) == (x \div (2 ^ i)) % 2

OrBit(x, y, i) == IF Bit(x, i) = 1 \/ Bit(y, i) = 1 THEN 2 ^ i ELSE 0
AndBit(x, y, i) == IF Bit(x, i) = 1 /\ Bit(y, i) = 1 THEN 2 ^ i ELSE 0

\* x | y and x & y of two bytes
Or8(x, y) ==
    OrBit(x, y, 0) + OrBit(x, y, 1) + OrBit(x, y, 2) + OrBit(x, y, 3)
  + OrBit(x, y, 4) + OrBit(x, y, 5) + OrBit(x, y, 6) + OrBit(x, y, 7)
And8(x, y) ==
    AndBit(x, y, 0) + AndBit(x, y, 1) + AndBit(x, y, 2) + AndBit(x, y, 3)
  + AndBit(x, y, 4) + AndBit(x, y, 5) + AndBit(x, y, 6) + AndBit(x, y, 7)

RECURSIVE BitOr(_, _)
\* a | b on two's complement integers, a byte at a time from the low end
BitOr(a, b) ==
    IF a = 0 THEN b
    ELSE IF b = 0 THEN a
    ELSE IF a = -1 \/ b = -1 THEN -1
    ELSE 256 * BitOr(a \div 256, b \div 256) + Or8(a % 256, b % 256)

RECURSIVE BitAnd(_, _)
\* a & b on two's complement integers, a byte at a time from the low end
BitAnd(a, b) ==
    IF a = 0 \/ b = 0 THEN 0
    ELSE IF a = -1 THEN b
    ELSE IF b = -1 THEN a
    ELSE 256 * BitAnd(a \div 256, b \div 256) + And8(a % 256, b % 256)

\* a >> k: arithmetic shift right of a signed 32-bit value
Shr(a, k) == a \div (2 ^ k)

\* a << k for 4 <= k <= 28: the low 32-k bits of a move up, the result is
\* read back as a signed 32-bit value
Shl(a, k) ==
    LET low == a % (2 ^ (32 - k))
    IN  IF low >= 2 ^ (31 - k) THEN (low - 2 ^ (32 - k)) * (2 ^ k)
        ELSE low * (2 ^ k)

-----------------------------------------------------------------------------
(* Number formatting *)

HexChars == <<"0", "1", "2", "3", "4", "5", "6", "7",
              "8", "9", "A", "B", "C", "D", "E", "F">>

RECURSIVE HexDigits(_)
\* n.toString(16).toUpperCase() for n >= 0, as a sequence of characters
HexDigits(n) ==
    IF n < 16 THEN <<HexChars[n + 1]>>
    ELSE Append(HexDigits(n \div 16), HexChars[(n % 16) + 1])

RECURSIVE PadStart(_, _)
\* s.padStart(w, '0')
PadStart(s, w) == IF Len(s) >= w THEN s ELSE PadStart(<<"0">> \o s, w)

\* `0x${frameId.toString(16).toUpperCase().padStart(8, '0')}`
FrameIdHex(frameId) == <<"0", "x">> \o PadStart(HexDigits(frameId), 8)

\* b.toString(16).toUpperCase().padStart(2, '0')
ByteHex(b) == PadStart(HexDigits(b), 2)

RECURSIVE JoinSpace(_)
\* parts.join(' ')
JoinSpace(parts) ==
    IF Len(parts) = 0 THEN <<>>
    ELSE IF Len(parts) = 1 THEN parts[1]
    ELSE parts[1] \o <<" ">> \o JoinSpace(Tail(parts))

\* data.map(b => hex(b)).join(' ')
DataHex(data) == JoinSpace([i \in 1..Len(data) |-> ByteHex(data[i])])

-----------------------------------------------------------------------------
(* getCommandName and parseDataValue *)

NoNums == <<>>
NoNames == <<>>

CommandCodes == {0, 16, 17, 128, 129, 130, 131, 132, 133, 134, 135, 143, 192, 208}

\* the commands table of getCommandName
CommandTable(code) ==
    CASE code = 0   -> "Shutdown"
      [] code = 16  -> "Force Output"
      [] code = 17  -> "Reset"
      [] code = 128 -> "Charge/Discharge Limits"
      [] code = 129 -> "SOC/SOH"
      [] code = 130 -> "Voltage/Current"
      [] code = 131 -> "Cell Voltage"
      [] code = 132 -> "Temperature"
      [] code = 133 -> "Operation Status"
      [] code = 134 -> "Accumulated Times"
      [] code = 135 -> "Accumulated Power"
      [] code = 143 -> "Software Version"
      [] code = 192 -> "Alarm Status"
      [] code = 208 -> "Debug Status"

\* commands[code] || `Unknown (0x${code.toString(16).toUpperCase()})`
getCommandName(code) ==
    IF code \in CommandCodes
    THEN [text |-> CommandTable(code), nums |-> NoNums, names |-> NoNames]
    ELSE [text |-> "Unknown (0x%s)", nums |-> NoNums, names |-> HexDigits(code)]

\* data[i] as an operand of a bit operator: a missing element (undefined) is 0
ByteAt(data, i) == IF i < Len(data) THEN data[i + 1] ELSE 0

\* U16 with the bytes in the other order: (data[k] << 8) | data[k + 1]
U16HighFirst(data, k) == BitOr(Shl(ByteAt(data, k), 8), ByteAt(data, k + 1))

\* (data[k + 1] << 8) | data[k]
U16(data, k) == BitOr(Shl(ByteAt(data, k + 1), 8), ByteAt(data, k))

\* Signed16 with the comparison off by one: raw > 32768
Signed16OffByOne(raw) == IF raw > 32768 THEN raw - 65536 ELSE raw

\* raw > 32767 ? (raw - 65536) * 0.1 : raw * 0.1, in tenths
Signed16(raw) == IF raw > 32767 THEN raw - 65536 ELSE raw

\* (data[k+3] << 24) | (data[k+2] << 16) | (data[k+1] << 8) | data[k]
I32(data, k) ==
    BitOr(BitOr(BitOr(Shl(ByteAt(data, k + 3), 24), Shl(ByteAt(data, k + 2), 16)),
                Shl(ByteAt(data, k + 1), 8)),
          ByteAt(data, k))

Abs(n) == IF n < 0 THEN -n ELSE n

\* names[index] || 'Unknown'
NameAt(names, index) == IF index < Len(names) THEN names[index + 1] ELSE "Unknown"

SystemStatusNames == <<"PowerOn", "Start", "Alone", "Charge", "Discharge",
                       "WaitCharge", "WaitDischarge", "Lock">>
WorkStatusNames == <<"Empty", "Boot", "Shutdown">>
OpStatusNames == <<"Empty", "Normal", "Alarm", "Fault">>

\* AlarmBitSet reading each byte from its top bit: (data[i] >> (7 - bit)) & 1
AlarmBitSetTopFirst(data, k) ==
    BitAnd(Shr(ByteAt(data, k \div 8), 7 - (k % 8)), 1) # 0

\* the test of the 0xC0 loops at position k = i * 8 + bit: (data[i] >> bit) & 1
AlarmBitSet(data, k) == BitAnd(Shr(ByteAt(data, k \div 8), k % 8), 1) # 0

\* the positions i * 8 + bit pushed by the loops of the 0xC0 branch, in loop
\* order (i = 0..7 outer, bit = 0..7 inner)
AlarmBits(data) ==
    SelectSeq([n \in 1..64 |-> n - 1], LAMBDA k : AlarmBitSet(data, k))

NonZero(b) == b # 0

InsufficientData == [text |-> "Insufficient data", nums |-> NoNums, names |-> NoNames]
ParseError == [text |-> "Parse error", nums |-> NoNums, names |-> NoNames]

\* the length below which a branch of parseDataValue returns 'Insufficient
\* data' (after the common data.length < 2 test)
BranchMinLength(commandCode) ==
    CASE commandCode = 128 -> 8
      [] commandCode = 129 -> 6
      [] commandCode = 130 -> 4
      [] commandCode = 131 -> 8
      [] commandCode = 132 -> 8
      [] commandCode = 133 -> 4
      [] commandCode = 134 -> 4
      [] commandCode = 135 -> 8
      [] OTHER -> 0

parseDataValue(commandCode, data) ==
    IF Len(data) < 2 THEN InsufficientData
    ELSE IF Len(data) < BranchMinLength(commandCode) THEN InsufficientData
    ELSE CASE commandCode = 128 ->
                [text |-> "Charge: %.1fV/%.1fA, Discharge: %.1fV/%.1fA",
                 nums |-> <<U16(data, 0), U16(data, 2), U16(data, 4), U16(data, 6)>>,
                 names |-> NoNames]
           [] commandCode = 129 ->
                [text |-> "SOC: %.1f%, SOH: %.1f%, Backup: %dmin",
                 nums |-> <<U16(data, 0), U16(data, 2), U16(data, 4)>>,
                 names |-> NoNames]
           [] commandCode = 130 ->
                LET voltage == U16(data, 0)
                    current == Signed16(U16(data, 2))
                IN  [text |-> "Voltage: %.1fV, Current: %.1fA, Power: %.2fkW",
                     \* the third number is voltage * |current| in units of
                     \* 10^-5 kW, which toFixed(2) then rounds
                     nums |-> <<voltage, current, voltage * Abs(current)>>,
                     names |-> NoNames]
           [] commandCode = 131 ->
                [text |-> "Max: %.3fV (P%dC%d), Min: %.3fV (P%dC%d)",
                 nums |-> <<U16(data, 0), data[3], data[4],
                            U16(data, 4), data[7], data[8]>>,
                 names |-> NoNames]
           [] commandCode = 132 ->
                [text |-> "Max: %.1fC (P%dS%d), Min: %.1fC (P%dS%d)",
                 nums |-> <<Signed16(U16(data, 0)), data[3], data[4],
                            Signed16(U16(data, 4)), data[7], data[8]>>,
                 names |-> NoNames]
           [] commandCode = 133 ->
                [text |-> "System: %s, Work: %s, Op: %s",
                 nums |-> NoNums,
                 names |-> <<NameAt(SystemStatusNames, data[1]),
                             NameAt(WorkStatusNames, data[2]),
                             NameAt(OpStatusNames, data[3])>>]
           [] commandCode = 134 ->
                [text |-> "Charge cycles: %d, Discharge cycles: %d",
                 nums |-> <<U16(data, 0), U16(data, 2)>>,
                 names |-> NoNames]
           [] commandCode = 135 ->
                [text |-> "Charge: %.1fkWh, Discharge: %.1fkWh",
                 nums |-> <<I32(data, 0), I32(data, 4)>>,
                 names |-> NoNames]
           [] commandCode = 143 ->
                \* the characters String.fromCharCode(b) of the non-zero bytes
                [text |-> "Version: %s",
                 nums |-> SelectSeq(data, NonZero),
                 names |-> NoNames]
           [] commandCode = 192 ->
                LET alarmBits == AlarmBits(data)
                IN  IF Len(alarmBits) > 0
                    THEN [text |-> "Alarms: %s", nums |-> alarmBits, names |-> NoNames]
                    ELSE [text |-> "No alarms", nums |-> NoNums, names |-> NoNames]
           [] OTHER ->
                [text |-> "Raw: %s", nums |-> NoNums, names |-> DataHex(data)]

-----------------------------------------------------------------------------
(* The debug log store *)

Max(a, b) == IF a >= b THEN a ELSE b
Min(a, b) == IF a <= b THEN a ELSE b

\* Slice with the wrong end kept: slice(0, -start)
SliceKeepFirst(seq, start) == SubSeq(seq, 1, Min(Len(seq), Max(-start, 0)))

\* Array.prototype.slice(start): a negative start counts from the end, the
\* start position is clamped to 0..length
Slice(seq, start) ==
    LET k == IF start < 0 THEN Max(Len(seq) + start, 0) ELSE Min(start, Len(seq))
    IN  SubSeq(seq, k + 1, Len(seq))

\* NewEntry that decodes received frames only
NewEntryTxUnparsed(entry, id, now) ==
    [id          |-> id,
     timestamp   |-> now,
     direction   |-> entry.direction,
     frameId     |-> entry.frameId,
     frameIdHex  |-> FrameIdHex(entry.frameId),
     command     |-> getCommandName(entry.commandCode),
     commandCode |-> entry.commandCode,
     source      |-> entry.source,
     destination |-> entry.destination,
     data        |-> entry.data,
     dataHex     |-> DataHex(entry.data),
     parsedValue |-> IF entry.direction = "TX" THEN InsufficientData
                     ELSE parseDataValue(entry.commandCode, entry.data)]

\* the CanLogEntry built by addLogEntry from its argument
NewEntry(entry, id, now) ==
    [id          |-> id,
     timestamp   |-> now,
     direction   |-> entry.direction,
     frameId     |-> entry.frameId,
     frameIdHex  |-> FrameIdHex(entry.frameId),
     command     |-> getCommandName(entry.commandCode),
     commandCode |-> entry.commandCode,
     source      |-> entry.source,
     destination |-> entry.destination,
     data        |-> entry.data,
     dataHex     |-> DataHex(entry.data),
     parsedValue |-> parseDataValue(entry.commandCode, entry.data)]

\* The mutable part of the store that the appending functions work on, with
\* the entries built so far by the running handler.
StoreOf(l, c) == [logs |-> l, logIdCounter |-> c, created |-> <<>>]

\* addLogEntry that reads logIdCounter without incrementing it
addLogEntrySameId(s, rec, cap, entry, now) ==
    IF ~rec THEN s
    ELSE LET newEntry == NewEntry(entry, s.logIdCounter, now)
         IN  [logs         |-> Slice(Append(s.logs, newEntry), -cap),
              logIdCounter |-> s.logIdCounter,
              created      |-> Append(s.created, newEntry)]

\* addLogEntry without the isRecording test
addLogEntryAlways(s, rec, cap, entry, now) ==
    LET newEntry == NewEntry(entry, s.logIdCounter, now)
    IN  [logs         |-> Slice(Append(s.logs, newEntry), -cap),
         logIdCounter |-> s.logIdCounter + 1,
         created      |-> Append(s.created, newEntry)]

\* addLogEntry that puts the new entry first: [newEntry, ...logs]
addLogEntryPrepend(s, rec, cap, entry, now) ==
    IF ~rec THEN s
    ELSE LET newEntry == NewEntry(entry, s.logIdCounter, now)
         IN  [logs         |-> Slice(<<newEntry>> \o s.logs, -cap),
              logIdCounter |-> s.logIdCounter + 1,
              created      |-> Append(s.created, newEntry)]

\* addLogEntry that numbers the entry by the length of the log
addLogEntryIdFromLength(s, rec, cap, entry, now) ==
    IF ~rec THEN s
    ELSE LET newEntry == NewEntry(entry, Len(s.logs), now)
         IN  [logs         |-> Slice(Append(s.logs, newEntry), -cap),
              logIdCounter |-> s.logIdCounter + 1,
              created      |-> Append(s.created, newEntry)]

\* addLogEntry(entry) applied to s, with isRecording = rec and maxLogs = cap
addLogEntry(s, rec, cap, entry, now) ==
    IF ~rec THEN s
    ELSE LET newEntry == NewEntry(entry, s.logIdCounter, now)
         IN  [logs         |-> Slice(Append(s.logs, newEntry), -cap),
              logIdCounter |-> s.logIdCounter + 1,
              created      |-> Append(s.created, newEntry)]

\* extractions with a wrong shift and with a mask one bit short
FrameDestinationShift8(frameId) == BitAnd(Shr(frameId, 8), 255)
FrameCommandCode7Bit(frameId) == BitAnd(Shr(frameId, 20), 127)

\* the identifier fields extracted by logCanFrame
FramePtp(frameId) == BitAnd(Shr(frameId, 28), 1)
FrameCommandCode(frameId) == BitAnd(Shr(frameId, 20), 255)
FrameDestination(frameId) == BitAnd(Shr(frameId, 12), 255)
FrameSource(frameId) == BitAnd(Shr(frameId, 4), 255)

\* the argument logCanFrame passes to addLogEntry
FrameEntry(direction, frameId, data) ==
    [direction   |-> direction,
     frameId     |-> frameId,
     commandCode |-> FrameCommandCode(frameId),
     source      |-> FrameSource(frameId),
     destination |-> FrameDestination(frameId),
     data        |-> data]

\* logCanFrame that gives up on a payload shorter than two bytes
logCanFrameSkipShort(s, rec, cap, direction, frameId, data, now) ==
    IF ~rec \/ Len(data) < 2 THEN s
    ELSE addLogEntry(s, rec, cap, FrameEntry(direction, frameId, data), now)

\* logCanFrame(direction, frameId, data) applied to s
logCanFrame(s, rec, cap, direction, frameId, data, now) ==
    IF ~rec THEN s
    ELSE addLogEntry(s, rec, cap, FrameEntry(direction, frameId, data), now)

\* testFrames of generateTestData
TestFrames ==
    << [cmd |-> 128, data |-> <<144, 33, 232, 3, 64, 26, 232, 3>>],
       [cmd |-> 129, data |-> <<80, 0, 100, 0, 60, 0, 0, 0>>],
       [cmd |-> 130, data |-> <<185, 31, 56, 0, 0, 0, 0, 0>>],
       [cmd |-> 131, data |-> <<66, 13, 1, 5, 56, 13, 2, 8>>],
       [cmd |-> 132, data |-> <<14, 1, 1, 3, 248, 0, 2, 5>>],
       [cmd |-> 133, data |-> <<4, 1, 1, 0, 0, 0, 0, 0>>],
       [cmd |-> 192, data |-> <<0, 0, 0, 0, 0, 0, 0, 0>>] >>

\* (1 << 28) | (frame.cmd << 20) | (0x01 << 12) | (0x80 << 4)
TxFrameId(cmd) == BitOr(BitOr(BitOr(Shl(1, 28), Shl(cmd, 20)), Shl(1, 12)), Shl(128, 4))
\* (1 << 28) | (frame.cmd << 20) | (0x80 << 12) | (0x01 << 4)
RxFrameId(cmd) == BitOr(BitOr(BitOr(Shl(1, 28), Shl(cmd, 20)), Shl(128, 12)), Shl(1, 4))

\* the logCanFrame calls made by the loop of generateTestData, in order: for
\* each test frame the TX query with no data, then the RX response
TestCalls ==
    [n \in 1..(2 * Len(TestFrames)) |->
        LET frame == TestFrames[(n + 1) \div 2]
        IN  IF n % 2 = 1
            THEN [direction |-> "TX", frameId |-> TxFrameId(frame.cmd), data |-> <<>>]
            ELSE [direction |-> "RX", frameId |-> RxFrameId(frame.cmd), data |-> frame.data]]

RECURSIVE GenerateFrom(_, _, _, _, _)
\* the loop of generateTestData from its n-th logCanFrame call on; a call
\* that changes nothing found isRecording false, and so will all later ones
GenerateFrom(s, rec, cap, n, now) ==
    IF n > Len(TestCalls) THEN s
    ELSE LET call == TestCalls[n]
             next == logCanFrame(s, rec, cap, call.direction, call.frameId,
                                 call.data, now)
         IN  IF next = s THEN s ELSE GenerateFrom(next, rec, cap, n + 1, now)

\* generateTestData() applied to s
generateTestData(s, rec, cap, now) ==
    IF ~rec THEN s ELSE GenerateFrom(s, rec, cap, 1, now)

-----------------------------------------------------------------------------
(* Inputs of the operations *)

\* identifier with the given fields; low is bits 3..0
MkId(ptp, cmd, dst, src, low) ==
    ptp * (2 ^ 28) + cmd * (2 ^ 20) + dst * (2 ^ 12) + src * 16 + low

\* calls of logCanFrame: the same Voltage/Current payload, with a negative
\* current, sent and received under two different identifiers
LogFrames ==
    { [direction |-> "TX", frameId |-> MkId(1, 130, 128, 1, 0),
       data |-> <<185, 31, 255, 255>>],
      [direction |-> "RX", frameId |-> MkId(0, 130, 1, 128, 8),
       data |-> <<185, 31, 255, 255>>] }

\* arguments of direct addLogEntry calls: the fields need not agree with frameId
EntryArgs ==
    { [direction |-> "RX", frameId |-> MkId(1, 129, 128, 1, 0), commandCode |-> 208,
       source |-> 7, destination |-> 9, data |-> <<34>>] }

MaxLogsArgs == 0 .. MaxMaxLogsArg

-----------------------------------------------------------------------------
(* Operations of the store *)

\* the store after a handler has run on it, and the record of what it did
Commit(op, s) ==
    /\ logs' = s.logs
    /\ logIdCounter' = s.logIdCounter
    /\ created' = s.created
    /\ lastOp' = op
    /\ lastId' = IF s.created = <<>> THEN lastId ELSE s.created[Len(s.created)].id
    /\ sessionLastId' = IF s.created = <<>> THEN sessionLastId
                        ELSE s.created[Len(s.created)].id

\* startRecording that keeps the id counter
StartRecordingKeepCounter ==
    /\ isRecording' = TRUE
    /\ logs' = <<>>
    /\ lastOp' = "startRecording"
    /\ created' = <<>>
    /\ sessionLastId' = -1
    /\ UNCHANGED <<logIdCounter, maxLogs, clock, lastId, harnessVars, bmsVars>>

StartRecording ==
    /\ isRecording' = TRUE
    /\ logs' = <<>>
    /\ logIdCounter' = 0
    /\ lastOp' = "startRecording"
    /\ created' = <<>>
    /\ sessionLastId' = -1
    /\ UNCHANGED <<maxLogs, clock, lastId, harnessVars, bmsVars>>

\* stopRecording that also drops the entries
StopRecordingClears ==
    /\ isRecording' = FALSE
    /\ logs' = <<>>
    /\ lastOp' = "stopRecording"
    /\ created' = <<>>
    /\ UNCHANGED <<logIdCounter, maxLogs, clock, lastId, sessionLastId, harnessVars, bmsVars>>

StopRecording ==
    /\ isRecording' = FALSE
    /\ lastOp' = "stopRecording"
    /\ created' = <<>>
    /\ UNCHANGED <<logs, logIdCounter, maxLogs, clock, lastId, sessionLastId, harnessVars, bmsVars>>

\* clearLogs that also ends the recording
ClearLogsStopsRecording ==
    /\ logs' = <<>>
    /\ logIdCounter' = 0
    /\ isRecording' = FALSE
    /\ lastOp' = "clearLogs"
    /\ created' = <<>>
    /\ sessionLastId' = -1
    /\ UNCHANGED <<maxLogs, clock, lastId, harnessVars, bmsVars>>

ClearLogs ==
    /\ logs' = <<>>
    /\ logIdCounter' = 0
    /\ lastOp' = "clearLogs"
    /\ created' = <<>>
    /\ sessionLastId' = -1
    /\ UNCHANGED <<isRecording, maxLogs, clock, lastId, harnessVars, bmsVars>>

SetMaxLogs(max) ==
    /\ maxLogs' = max
    /\ lastOp' = "setMaxLogs"
    /\ created' = <<>>
    /\ UNCHANGED <<logs, isRecording, logIdCounter, clock, lastId, sessionLastId, harnessVars, bmsVars>>

AddLogEntry(entry) ==
    /\ logIdCounter < MaxCounter
    /\ Commit("addLogEntry",
              addLogEntry(StoreOf(logs, logIdCounter), isRecording, maxLogs, entry, clock))
    /\ UNCHANGED <<isRecording, maxLogs, clock, harnessVars, bmsVars>>

LogCanFrame(direction, frameId, data) ==
    /\ logIdCounter < MaxCounter
    /\ Commit("logCanFrame",
              logCanFrame(StoreOf(logs, logIdCounter), isRecording, maxLogs,
                          direction, frameId, data, clock))
    /\ UNCHANGED <<isRecording, maxLogs, clock, harnessVars, bmsVars>>

GenerateTestData ==
    /\ logIdCounter < MaxCounter
    /\ Commit("generateTestData",
              generateTestData(StoreOf(logs, logIdCounter), isRecording, maxLogs, clock))
    /\ UNCHANGED <<isRecording, maxLogs, clock, harnessVars, bmsVars>>

\* time passes
Tick ==
    /\ clock < MaxClock
    /\ clock' = clock + 1
    /\ lastOp' = "tick"
    /\ created' = <<>>
    /\ UNCHANGED <<storeVars, lastId, sessionLastId, harnessVars, bmsVars>>

NoFrame == [kind |-> "none"]

Init ==
    /\ logs = <<>>
    /\ isRecording = FALSE
    /\ logIdCounter = 0
    /\ maxLogs = DefaultMaxLogs
    /\ clock = 0
    /\ lastOp = "init"
    /\ created = <<>>
    /\ lastId = -1
    /\ sessionLastId = -1
    /\ frameIn = NoFrame
    /\ frameOut = NoFrame
    /\ BmsIdle

Next ==
    \/ StartRecording
    \/ StopRecording
    \/ ClearLogs
    \/ \E max \in MaxLogsArgs : SetMaxLogs(max)
    \/ \E entry \in EntryArgs : AddLogEntry(entry)
    \/ \E f \in LogFrames : LogCanFrame(f.direction, f.frameId, f.data)
    \/ GenerateTestData
    \/ Tick

Spec == Init /\ [][Next]_vars

-----------------------------------------------------------------------------
(* The frame identifier codec, run on sampled identifiers (SpecCodec) *)

\* continuation flag: bit 3 of the identifier
FrameCnt(frameId) == BitAnd(Shr(frameId, 3), 1)

\* the identifier with the five fields OR-ed in at their offsets, every other bit 0
encodeIdentifier(f) ==
    BitOr(BitOr(BitOr(BitOr(Shl(f.ptp, 28), Shl(f.commandCode, 20)),
                      Shl(f.destination, 12)),
                Shl(f.source, 4)),
          f.cnt * 8)

\* the five fields of an identifier
decodeIdentifier(frameId) ==
    [ptp         |-> FramePtp(frameId),
     commandCode |-> FrameCommandCode(frameId),
     destination |-> FrameDestination(frameId),
     source      |-> FrameSource(frameId),
     cnt         |-> FrameCnt(frameId)]

\* sampled field values: both ends, the top bit alone, all but the top bit,
\* alternating bits
ByteSamples == {0, 1, 85, 127, 128, 255}

\* the fields of a sampled identifier; low is bits 2..0
CodecInputs ==
    [kind : {"fields"}, ptp : {0, 1}, commandCode : ByteSamples,
     destination : ByteSamples, source : ByteSamples, cnt : {0, 1}, low : 0..7]

FieldsOf(in) ==
    [ptp |-> in.ptp, commandCode |-> in.commandCode, destination |-> in.destination,
     source |-> in.source, cnt |-> in.cnt]

\* the 29-bit identifier with the fields and low bits of in
IdOf(in) == MkId(in.ptp, in.commandCode, in.destination, in.source, in.cnt * 8 + in.low)

\* logCanFrame's extraction applied to the sampled identifier
ExtractFields ==
    /\ frameIn.kind = "fields"
    /\ frameOut = NoFrame
    /\ frameOut' = [kind  |-> "extracted",
                    entry |-> FrameEntry("RX", IdOf(frameIn), <<>>)]
    /\ UNCHANGED <<storeVars, clock, lastOp, created, lastId, sessionLastId, frameIn, bmsVars>>

\* the sampled fields encoded and decoded again
RoundTrip ==
    /\ frameIn.kind = "fields"
    /\ frameIn.low = 0
    /\ frameOut = NoFrame
    /\ LET id == encodeIdentifier(FieldsOf(frameIn))
       IN  frameOut' = [kind |-> "decoded", id |-> id, fields |-> decodeIdentifier(id)]
    /\ UNCHANGED <<storeVars, clock, lastOp, created, lastId, sessionLastId, frameIn, bmsVars>>

InitCodec ==
    /\ logs = <<>>
    /\ isRecording = FALSE
    /\ logIdCounter = 0
    /\ maxLogs = DefaultMaxLogs
    /\ clock = 0
    /\ lastOp = "init"
    /\ created = <<>>
    /\ lastId = -1
    /\ sessionLastId = -1
    /\ frameIn \in CodecInputs
    /\ frameOut = NoFrame
    /\ BmsIdle

NextCodec == ExtractFields \/ RoundTrip

SpecCodec == InitCodec /\ [][NextCodec]_vars

-----------------------------------------------------------------------------
(* The payload decoder, run on sampled payloads (SpecDecode) *)

\* every command of the table and two codes outside it
DecodeCommands == CommandCodes \cup {66, 255}

\* 8-byte payloads built from sampled bytes: the 16-bit words (a, b), (c, d),
\* (c, d), (a, b) and the 32-bit words (a, b, c, d), (c, d, a, b)
WordPayloads ==
    { <<a, b, c, d, c, d, a, b>> : a \in ByteSamples, b \in ByteSamples,
                                   c \in ByteSamples, d \in ByteSamples }

\* payloads of every length 0..MaxPayloadLen with all bits clear or all set
\* in each byte, the payloads of generateTestData and the sampled words
DecodePayloads ==
    UNION { [1..n -> {0, 255}] : n \in 0..MaxPayloadLen }
      \cup { TestFrames[i].data : i \in 1..Len(TestFrames) }
      \cup WordPayloads

DecodeInputs == [kind : {"payload"}, commandCode : DecodeCommands, data : DecodePayloads]

\* parseDataValue applied to the sampled command code and payload
Parse ==
    /\ frameIn.kind = "payload"
    /\ frameOut = NoFrame
    /\ frameOut' = [kind  |-> "parsed",
                    value |-> parseDataValue(frameIn.commandCode, frameIn.data)]
    /\ UNCHANGED <<storeVars, clock, lastOp, created, lastId, sessionLastId, frameIn, bmsVars>>

InitDecode ==
    /\ logs = <<>>
    /\ isRecording = FALSE
    /\ logIdCounter = 0
    /\ maxLogs = DefaultMaxLogs
    /\ clock = 0
    /\ lastOp = "init"
    /\ created = <<>>
    /\ lastId = -1
    /\ sessionLastId = -1
    /\ frameIn \in DecodeInputs
    /\ frameOut = NoFrame
    /\ BmsIdle

NextDecode == Parse

SpecDecode == InitDecode /\ [][NextDecode]_vars

-----------------------------------------------------------------------------
(* Alarm severity, alarm descriptions and status names (bmsStore, AlarmList) *)

\* array.includes(x)
Includes(array, x) == \E i \in 1..Len(array) : array[i] = x

level3 == <<0, 1, 14, 18, 19, 20, 21, 22, 23, 24, 25, 26, 27, 28, 29, 30, 31, 32>>
level2 == <<2, 3, 4, 5, 6, 7, 8, 9>>

\* getAlarmSeverity with the reserved bit 17 counted into the 18..32 range
getAlarmSeverityReserved17(bit) ==
    IF Includes(level3, bit) \/ bit = 17 THEN 3
    ELSE IF Includes(level2, bit) THEN 2
    ELSE 1

\* if (level3.includes(bit)) return 3; if (level2.includes(bit)) return 2;
\* return 1
getAlarmSeverity(bit) ==
    IF Includes(level3, bit) THEN 3
    ELSE IF Includes(level2, bit) THEN 2
    ELSE 1

\* the descriptions table of getAlarmDescription, one <<bit, text>> per entry
descriptions ==
    << <<0, "Cell over voltage">>,
       <<1, "Cell under voltage">>,
       <<2, "Charging over temperature alarm">>,
       <<3, "Charging low temperature alarm">>,
       <<4, "Discharging over temperature pre-alarm">>,
       <<5, "Discharging low temperature pre-alarm">>,
       <<6, "Discharging over current pre-alarm">>,
       <<7, "Charging over current pre-alarm">>,
       <<8, "Total over voltage pre-alarm">>,
       <<9, "Total under voltage warning">>,
       <<10, "Circuit breaker disconnected">>,
       <<11, "Balanced charging failed">>,
       <<12, "Positive battery pack voltage imbalance">>,
       <<13, "Negative battery pack voltage imbalance">>,
       <<14, "BMU communication interruption">>,
       <<15, "Water flooding detection alarm">>,
       <<16, "Water flooding detection and protection">>,
       <<18, "Charging over temperature protection">>,
       <<19, "Charging low temperature protection">>,
       <<20, "Discharging over temperature protection">>,
       <<21, "Discharging low temperature protection">>,
       <<22, "Discharging over current protection level 1">>,
       <<23, "Discharging over current protection level 2">>,
       <<24, "Charging over current protection level 1">>,
       <<25, "Charging over current protection level 2">>,
       <<26, "Charging over current protection level 3">>,
       <<27, "Total charging over voltage protection">>,
       <<28, "Total charging under voltage protection">>,
       <<29, "Charging DC contactor failure">>,
       <<30, "Discharging DC contactor failure">>,
       <<31, "EPO shut down">>,
       <<32, "Fire protection">>,
       <<33, "Parallel communication abnormality">>,
       <<34, "Parallel address conflict">>,
       <<35, "Insulation monitoring alarm">>,
       <<36, "Hydrogen protection">>,
       <<37, "Battery pack fan malfunction">>,
       <<38, "Battery pack fuse temperature too high">>,
       <<39, "CAN Hall communication interruption">>,
       <<40, "CAN Hall data failure">> >>

\* alarmDescriptions with an entry for the reserved bit 17
alarmDescriptionsWith17 ==
    << <<0, "Cell over voltage">>,
       <<1, "Cell under voltage">>,
       <<2, "Charging over temperature alarm">>,
       <<3, "Charging low temperature alarm">>,
       <<4, "Discharging over temperature pre-alarm">>,
       <<5, "Discharging low temperature pre-alarm">>,
       <<6, "Discharging over current pre-alarm">>,
       <<7, "Charging over current pre-alarm">>,
       <<8, "Total over voltage pre-alarm">>,
       <<9, "Total under voltage warning">>,
       <<10, "Circuit breaker disconnected">>,
       <<11, "Balanced charging failed">>,
       <<12, "Positive pack voltage imbalance">>,
       <<13, "Negative pack voltage imbalance">>,
       <<14, "BMU communication interruption">>,
       <<15, "Water flooding detection alarm">>,
       <<16, "Water flooding protection">>,
       <<17, "Reserved">>,
       <<18, "Charging over temp protection">>,
       <<19, "Charging low temp protection">>,
       <<20, "Discharging over temp protection">>,
       <<21, "Discharging low temp protection">>,
       <<22, "Discharge over current L1">>,
       <<23, "Discharge over current L2">>,
       <<24, "Charging over current L1">>,
       <<25, "Charging over current L2">>,
       <<26, "Charging over current L3">>,
       <<27, "Total charge over voltage">>,
       <<28, "Total charge under voltage">>,
       <<29, "Charging DC contactor failure">>,
       <<30, "Discharging DC contactor failure">>,
       <<31, "EPO shut down">>,
       <<32, "Fire protection">>,
       <<33, "Parallel comm abnormality">>,
       <<34, "Parallel address conflict">>,
       <<35, "Insulation monitoring alarm">>,
       <<36, "Hydrogen protection">>,
       <<37, "Battery pack fan malfunction">>,
       <<38, "Fuse temperature high">>,
       <<39, "CAN Hall comm interruption">>,
       <<40, "CAN Hall data failure">> >>

\* the alarmDescriptions table of AlarmList, one <<bit, text>> per entry
alarmDescriptions ==
    << <<0, "Cell over voltage">>,
       <<1, "Cell under voltage">>,
       <<2, "Charging over temperature alarm">>,
       <<3, "Charging low temperature alarm">>,
       <<4, "Discharging over temperature pre-alarm">>,
       <<5, "Discharging low temperature pre-alarm">>,
       <<6, "Discharging over current pre-alarm">>,
       <<7, "Charging over current pre-alarm">>,
       <<8, "Total over voltage pre-alarm">>,
       <<9, "Total under voltage warning">>,
       <<10, "Circuit breaker disconnected">>,
       <<11, "Balanced charging failed">>,
       <<12, "Positive pack voltage imbalance">>,
       <<13, "Negative pack voltage imbalance">>,
       <<14, "BMU communication interruption">>,
       <<15, "Water flooding detection alarm">>,
       <<16, "Water flooding protection">>,
       <<18, "Charging over temp protection">>,
       <<19, "Charging low temp protection">>,
       <<20, "Discharging over temp protection">>,
       <<21, "Discharging low temp protection">>,
       <<22, "Discharge over current L1">>,
       <<23, "Discharge over current L2">>,
       <<24, "Charging over current L1">>,
       <<25, "Charging over current L2">>,
       <<26, "Charging over current L3">>,
       <<27, "Total charge over voltage">>,
       <<28, "Total charge under voltage">>,
       <<29, "Charging DC contactor failure">>,
       <<30, "Discharging DC contactor failure">>,
       <<31, "EPO shut down">>,
       <<32, "Fire protection">>,
       <<33, "Parallel comm abnormality">>,
       <<34, "Parallel address conflict">>,
       <<35, "Insulation monitoring alarm">>,
       <<36, "Hydrogen protection">>,
       <<37, "Battery pack fan malfunction">>,
       <<38, "Fuse temperature high">>,
       <<39, "CAN Hall comm interruption">>,
       <<40, "CAN Hall data failure">> >>

\* the keys of a table of <<key, text>> entries
Keys(table) == { table[i][1] : i \in 1..Len(table) }

\* table[key] for a key of the table
TableAt(table, key) == table[CHOOSE i \in 1..Len(table) : table[i][1] = key][2]

\* a string without interpolated parts
Plain(s) == [text |-> s, nums |-> NoNums, names |-> NoNames]

\* descriptions[bit] || `Unknown alarm (bit ${bit})`
getAlarmDescription(bit) ==
    IF bit \in Keys(descriptions)
    THEN Plain(TableAt(descriptions, bit))
    ELSE [text |-> "Unknown alarm (bit %d)", nums |-> <<bit>>, names |-> NoNames]

\* alarmDescriptions[bit] || `Unknown (bit ${bit})`
AlarmListDescription(bit) ==
    IF bit \in Keys(alarmDescriptions)
    THEN Plain(TableAt(alarmDescriptions, bit))
    ELSE [text |-> "Unknown (bit %d)", nums |-> <<bit>>, names |-> NoNames]

\* the names tables of getSystemStatusName, getWorkStatusName and
\* getOperationStatusName, keyed 0, 1, 2, ...
SystemStatusTable == <<"Power On", "Start", "Alone", "Charging", "Discharging",
                       "Wait to Charge", "Wait to Discharge", "Lock">>
WorkStatusTable == <<"Empty", "Boot", "Shut Down">>
OperationStatusTable == <<"Empty", "Normal", "Alarm", "Fault">>

\* names[status] || 'Unknown'
getSystemStatusName(status) == NameAt(SystemStatusTable, status)
getWorkStatusName(status) == NameAt(WorkStatusTable, status)
getOperationStatusName(status) == NameAt(OperationStatusTable, status)

\* the severity of the first active bit instead of the maximum
maxSeverityOfFirst(active) ==
    IF Len(active) = 0 THEN 0 ELSE getAlarmSeverity(active[1])

\* max(severity(b) for b in active) or 0 if none active
maxSeverityOf(active) ==
    IF Len(active) = 0 THEN 0
    ELSE LET severities == { getAlarmSeverity(active[i]) : i \in 1..Len(active) }
         IN  CHOOSE m \in severities : \A s \in severities : s <= m

\* the alarm status the backend derives from the 8 bytes of a mask (byte i
\* holds bits 8i..8i+7): the active bit positions in ascending order and the
\* maximum severity; fetchBmsData stores both as received
decodeAlarmStatus(data) ==
    LET active == AlarmBits(data)
    IN  [activeAlarms |-> active, maxSeverity |-> maxSeverityOf(active)]

-----------------------------------------------------------------------------
(* The lookups and the alarm status, run on sampled keys and masks
   (SpecTables) *)

MaxKey == 255

KeyInputs == [kind : {"key"}, key : 0..MaxKey]

\* the mask with only bit k set
SingleBitMask(k) == [i \in 1..MaxPayloadLen |-> IF i - 1 = k \div 8 THEN 2 ^ (k % 8) ELSE 0]

\* masks with every byte all clear or all set, every mask with one bit set,
\* and the mask with bits 0 and 5 set
AlarmMasks ==
    [1..MaxPayloadLen -> {0, 255}]
      \cup { SingleBitMask(k) : k \in 0..(8 * MaxPayloadLen - 1) }
      \cup { <<33, 0, 0, 0, 0, 0, 0, 0>> }

MaskInputs == [kind : {"mask"}, data : AlarmMasks]

\* every lookup applied to the sampled key
LookupNames ==
    /\ frameIn.kind = "key"
    /\ frameOut = NoFrame
    /\ frameOut' = [kind            |-> "names",
                    commandName     |-> getCommandName(frameIn.key),
                    systemStatus    |-> getSystemStatusName(frameIn.key),
                    workStatus      |-> getWorkStatusName(frameIn.key),
                    operationStatus |-> getOperationStatusName(frameIn.key),
                    description     |-> getAlarmDescription(frameIn.key),
                    listDescription |-> AlarmListDescription(frameIn.key),
                    severity        |-> getAlarmSeverity(frameIn.key)]
    /\ UNCHANGED <<storeVars, clock, lastOp, created, lastId, sessionLastId, frameIn, bmsVars>>

\* the alarm status of the sampled mask, as fetchBmsData receives it
DecodeAlarmMask ==
    /\ frameIn.kind = "mask"
    /\ frameOut = NoFrame
    /\ frameOut' = [kind |-> "alarms", status |-> decodeAlarmStatus(frameIn.data)]
    /\ UNCHANGED <<storeVars, clock, lastOp, created, lastId, sessionLastId, frameIn, bmsVars>>

InitTables ==
    /\ logs = <<>>
    /\ isRecording = FALSE
    /\ logIdCounter = 0
    /\ maxLogs = DefaultMaxLogs
    /\ clock = 0
    /\ lastOp = "init"
    /\ created = <<>>
    /\ lastId = -1
    /\ sessionLastId = -1
    /\ frameIn \in KeyInputs \cup MaskInputs
    /\ frameOut = NoFrame
    /\ BmsIdle

NextTables == LookupNames \/ DecodeAlarmMask

SpecTables == InitTables /\ [][NextTables]_vars

-----------------------------------------------------------------------------
(* exportToCsv *)

\* An exported string is a sequence of elements: a single character, given
\* by its code, or a run of characters none of which is a double quote, a
\* comma between fields or a line break between rows (a literal, a formatted
\* number, a name, a hex dump), given by the value it renders.
Char(c) == [code |-> c, run |-> Plain("")]
Run(v) == [code |-> -1, run |-> v]

QuoteChar == Char(34)
CommaChar == Char(44)
NewlineChar == Char(10)

\* the characters of a parsedValue: the characters of a version string are
\* payload bytes, any of which can be a double quote; every other summary is
\* built from literals, numbers and names that hold none
ValueChars(value) ==
    IF value.text = "Version: %s"
    THEN <<Run(Plain("Version: "))>> \o [i \in 1..Len(value.nums) |-> Char(value.nums[i])]
    ELSE <<Run(value)>>

\* replace without the g flag: only the first double quote is doubled
ReplaceFirstQuote(s) ==
    IF \E i \in 1..Len(s) : s[i] = QuoteChar
    THEN LET first == CHOOSE i \in 1..Len(s) :
                          /\ s[i] = QuoteChar
                          /\ \A j \in 1..(i - 1) : s[j] # QuoteChar
         IN  SubSeq(s, 1, first) \o <<QuoteChar>> \o SubSeq(s, first + 1, Len(s))
    ELSE s

RECURSIVE ReplaceQuotes(_)
\* s.replace(/"/g, '""')
ReplaceQuotes(s) ==
    IF Len(s) = 0 THEN <<>>
    ELSE (IF Head(s) = QuoteChar THEN <<QuoteChar, QuoteChar>> ELSE <<Head(s)>>)
            \o ReplaceQuotes(Tail(s))

RECURSIVE Join(_, _)
\* parts.join(sep)
Join(parts, sep) ==
    IF Len(parts) = 0 THEN <<>>
    ELSE IF Len(parts) = 1 THEN parts[1]
    ELSE parts[1] \o <<sep>> \o Join(Tail(parts), sep)

\* `0x${n.toString(16).toUpperCase().padStart(2, '0')}`
Hex2(n) == <<Run([text |-> "0x%s", nums |-> NoNums, names |-> ByteHex(n)])>>

CsvHeaders ==
    <<"ID", "Timestamp", "Direction", "Frame ID", "Command Code", "Command",
      "Source", "Destination", "Data (Hex)", "Parsed Value">>

\* the fields of the row of one log entry
CsvRow(log) ==
    << <<Run([text |-> "%d", nums |-> <<log.id>>, names |-> NoNames])>>,
       <<Run([text |-> "%iso", nums |-> <<log.timestamp>>, names |-> NoNames])>>,
       <<Run(Plain(log.direction))>>,
       <<Run([text |-> "%s", nums |-> NoNums, names |-> log.frameIdHex])>>,
       Hex2(log.commandCode),
       <<Run(log.command)>>,
       Hex2(log.source),
       Hex2(log.destination),
       <<Run([text |-> "%s", nums |-> NoNums, names |-> log.dataHex])>>,
       <<QuoteChar>> \o ReplaceQuotes(ValueChars(log.parsedValue)) \o <<QuoteChar>> >>

\* [headers.join(','), ...rows.map(row => row.join(','))].join('\n')
exportToCsv(l) ==
    Join(<<Join([i \in 1..Len(CsvHeaders) |-> <<Run(Plain(CsvHeaders[i]))>>], CommaChar)>>
            \o [i \in 1..Len(l) |-> Join(CsvRow(l[i]), CommaChar)],
         NewlineChar)

-----------------------------------------------------------------------------
(* exportToJson *)

RECURSIVE JoinWith(_, _)
\* parts.join(sep) for a separator of several characters
JoinWith(parts, sep) ==
    IF Len(parts) = 0 THEN <<>>
    ELSE IF Len(parts) = 1 THEN parts[1]
    ELSE parts[1] \o sep \o JoinWith(Tail(parts), sep)

\* n spaces of indentation
Indent(n) == Run([text |-> "%indent", nums |-> <<n>>, names |-> NoNames])

\* the escape JSON.stringify writes for the character with code c
JsonEscapeOf(c) ==
    CASE c = 34 -> <<Char(92), Char(34)>>
      [] c = 92 -> <<Char(92), Char(92)>>
      [] c = 8  -> <<Char(92), Char(98)>>
      [] c = 9  -> <<Char(92), Char(116)>>
      [] c = 10 -> <<Char(92), Char(110)>>
      [] c = 12 -> <<Char(92), Char(102)>>
      [] c = 13 -> <<Char(92), Char(114)>>
      [] c >= 0 /\ c < 32 /\ c \notin {8, 9, 10, 12, 13} ->
            <<Char(92), Run([text |-> "u%04x", nums |-> <<c>>, names |-> NoNames])>>
      [] OTHER -> <<Char(c)>>

RECURSIVE JsonEscape(_)
\* the characters of a string as JSON.stringify writes them between quotes
JsonEscape(s) ==
    IF Len(s) = 0 THEN <<>>
    ELSE (IF Head(s).code = -1 THEN <<Head(s)>> ELSE JsonEscapeOf(Head(s).code))
            \o JsonEscape(Tail(s))

\* JSON.stringify of a string
JsonString(s) == <<QuoteChar>> \o JsonEscape(s) \o <<QuoteChar>>

\* JSON.stringify of a number
JsonNumber(n) == <<Run([text |-> "%d", nums |-> <<n>>, names |-> NoNames])>>

\* JSON.stringify(items, null, 2) of an array whose items are already
\* written, at the given depth of indentation
JsonArray(items, depth) ==
    IF Len(items) = 0 THEN <<Char(91), Char(93)>>
    ELSE <<Char(91), NewlineChar>>
            \o JoinWith([i \in 1..Len(items) |-> <<Indent(depth + 2)>> \o items[i]],
                    <<CommaChar, NewlineChar>>)
            \o <<NewlineChar, Indent(depth), Char(93)>>

\* one member "name": value of an object at the given depth
JsonMember(name, value, depth) ==
    <<Indent(depth), QuoteChar, Run(Plain(name)), QuoteChar, Char(58), Char(32)>> \o value

\* the object { ...log, timestamp: log.timestamp.toISOString() } as
\* JSON.stringify writes it at depth 2: the members in the order of the
\* fields of the entry
JsonEntry(log) ==
    <<Char(123), NewlineChar>>
       \o JoinWith(<< JsonMember("id", JsonNumber(log.id), 4),
                  JsonMember("timestamp",
                             JsonString(<<Run([text |-> "%iso", nums |-> <<log.timestamp>>,
                                               names |-> NoNames])>>), 4),
                  JsonMember("direction", JsonString(<<Run(Plain(log.direction))>>), 4),
                  JsonMember("frameId", JsonNumber(log.frameId), 4),
                  JsonMember("frameIdHex",
                             JsonString(<<Run([text |-> "%s", nums |-> NoNums,
                                               names |-> log.frameIdHex])>>), 4),
                  JsonMember("command", JsonString(<<Run(log.command)>>), 4),
                  JsonMember("commandCode", JsonNumber(log.commandCode), 4),
                  JsonMember("source", JsonNumber(log.source), 4),
                  JsonMember("destination", JsonNumber(log.destination), 4),
                  JsonMember("data",
                             JsonArray([i \in 1..Len(log.data) |-> JsonNumber(log.data[i])],
                                       4), 4),
                  JsonMember("dataHex",
                             JsonString(<<Run([text |-> "%s", nums |-> NoNums,
                                               names |-> log.dataHex])>>), 4),
                  JsonMember("parsedValue", JsonString(ValueChars(log.parsedValue)), 4) >>,
               <<CommaChar, NewlineChar>>)
       \o <<NewlineChar, Indent(2), Char(125)>>

\* JSON.stringify(logs.map(log => ({...log, timestamp: ...})), null, 2)
exportToJson(l) == JsonArray([i \in 1..Len(l) |-> JsonEntry(l[i])], 0)

-----------------------------------------------------------------------------
(* exportToCsv and exportToJson run on recorded logs (SpecExport) *)

MaxExportLen == 3

\* frames to record before an export: two version strings with double quotes
\* (one also with a line break and a comma), a Voltage/Current frame, an
\* Operation Status frame and a Debug Status frame
ExportFrames ==
    { [direction |-> "RX", frameId |-> MkId(1, 143, 128, 1, 0), data |-> <<86, 34, 49, 0>>],
      [direction |-> "RX", frameId |-> MkId(1, 143, 128, 1, 0), data |-> <<34, 10, 44, 34>>],
      [direction |-> "TX", frameId |-> MkId(1, 130, 1, 128, 0), data |-> <<185, 31, 255, 255>>],
      [direction |-> "RX", frameId |-> MkId(1, 133, 128, 1, 0), data |-> <<4, 1, 1, 0>>],
      [direction |-> "RX", frameId |-> MkId(0, 208, 128, 1, 0), data |-> <<34, 44>>] }

ExportCalls == UNION { [1..n -> ExportFrames] : n \in 0..MaxExportLen }

RECURSIVE LogAll(_, _)
\* the store after logCanFrame was called for each of calls while recording
LogAll(s, calls) ==
    IF Len(calls) = 0 THEN s
    ELSE LET call == Head(calls)
             next == logCanFrame(s, TRUE, DefaultMaxLogs, call.direction,
                                 call.frameId, call.data, 0)
         IN  IF next = s THEN s ELSE LogAll(next, Tail(calls))

\* exportToCsv() on the current logs
ExportToCsv ==
    /\ frameIn.kind = "export"
    /\ frameOut' = [kind |-> "csv", text |-> exportToCsv(logs)]
    /\ lastOp' = "exportToCsv"
    /\ created' = <<>>
    /\ UNCHANGED <<storeVars, clock, lastId, sessionLastId, frameIn, bmsVars>>

\* exportToJson that hands the entries over and empties the log
ExportToJsonDraining ==
    /\ frameIn.kind = "export"
    /\ frameOut' = [kind |-> "json", text |-> exportToJson(logs)]
    /\ logs' = <<>>
    /\ lastOp' = "exportToJson"
    /\ created' = <<>>
    /\ UNCHANGED <<isRecording, logIdCounter, maxLogs, clock, lastId, sessionLastId, frameIn, bmsVars>>

\* exportToJson() on the current logs
ExportToJson ==
    /\ frameIn.kind = "export"
    /\ frameOut' = [kind |-> "json", text |-> exportToJson(logs)]
    /\ lastOp' = "exportToJson"
    /\ created' = <<>>
    /\ UNCHANGED <<storeVars, clock, lastId, sessionLastId, frameIn, bmsVars>>

\* the store after startRecording and the calls of one member of ExportCalls
InitExport ==
    /\ \E calls \in ExportCalls :
          LET s == LogAll(StoreOf(<<>>, 0), calls)
          IN  /\ logs = s.logs
              /\ logIdCounter = s.logIdCounter
    /\ isRecording = TRUE
    /\ maxLogs = DefaultMaxLogs
    /\ clock = 0
    /\ lastOp = "init"
    /\ created = <<>>
    /\ lastId = logIdCounter - 1
    /\ sessionLastId = logIdCounter - 1
    /\ frameIn = [kind |-> "export"]
    /\ frameOut = NoFrame
    /\ BmsIdle

\* arguments of setMaxLogs between exports: below and above every log length
ExportMaxLogsArgs == {0, DefaultMaxLogs}

\* the exports, and between them the operations that leave the entries alone
NextExport ==
    \/ ExportToCsv
    \/ ExportToJson
    \/ StopRecording
    \/ \E max \in ExportMaxLogsArgs : SetMaxLogs(max)
    \/ Tick

SpecExport == InitExport /\ [][NextExport]_vars

-----------------------------------------------------------------------------
(* logCanFrame run on a stream of good and bad frames (SpecStream) *)

\* frames of a stream: payloads that are empty or too short for their
\* command, commands without a decoder, status bytes outside the name
\* tables, an energy with the top bit set, and a well-formed frame
StreamFrames ==
    { [direction |-> "RX", frameId |-> MkId(1, 130, 1, 128, 0), data |-> <<>>],
      [direction |-> "RX", frameId |-> MkId(1, 128, 1, 128, 0),
       data |-> <<144, 33, 232, 3, 64, 26, 232>>],
      [direction |-> "RX", frameId |-> MkId(0, 66, 1, 128, 8), data |-> <<1, 2, 3>>],
      [direction |-> "TX", frameId |-> MkId(1, 255, 255, 255, 15), data |-> <<>>],
      [direction |-> "RX", frameId |-> MkId(1, 133, 1, 128, 0), data |-> <<9, 5, 7, 0>>],
      [direction |-> "RX", frameId |-> MkId(1, 192, 1, 128, 0), data |-> <<1, 0>>],
      [direction |-> "RX", frameId |-> MkId(1, 143, 1, 128, 0), data |-> <<0, 0>>],
      [direction |-> "RX", frameId |-> MkId(1, 135, 1, 128, 0),
       data |-> <<0, 0, 0, 128, 255, 255, 255, 255>>],
      [direction |-> "RX", frameId |-> MkId(1, 132, 1, 128, 0),
       data |-> <<14, 1, 1, 3, 248, 0, 2, 5>>] }

\* the store right after startRecording
InitStream ==
    /\ logs = <<>>
    /\ isRecording = TRUE
    /\ logIdCounter = 0
    /\ maxLogs = DefaultMaxLogs
    /\ clock = 0
    /\ lastOp = "startRecording"
    /\ created = <<>>
    /\ lastId = -1
    /\ sessionLastId = -1
    /\ frameIn = NoFrame
    /\ frameOut = NoFrame
    /\ BmsIdle

NextStream == \E f \in StreamFrames : LogCanFrame(f.direction, f.frameId, f.data)

SpecStream == InitStream /\ [][NextStream]_vars

-----------------------------------------------------------------------------
(* The adapter framer of the backend (SpecFramer).  Envelope: 0xAA, type,
   4 id bytes, len, len data bytes, checksum. *)

SyncByte == 170
HeaderLen == 7

RECURSIVE SumBytes(_)
SumBytes(bytes) == IF Len(bytes) = 0 THEN 0 ELSE Head(bytes) + SumBytes(Tail(bytes))

\* the checksum byte of the bytes between the sync byte and the checksum;
\* the algorithm is left open by the envelope: the low byte of their sum
checksumOf(bytes) == SumBytes(bytes) % 256

\* the adapter frame that carries a CAN frame
adapterFrame(type, id, data) ==
    LET body == <<type>> \o id \o <<Len(data)>> \o data
    IN  <<SyncByte>> \o body \o <<checksumOf(body)>>

\* what the framer does next with the bytes it holds:
\*   "idle"     nothing is buffered
\*   "resync"   the first byte is no sync byte and is dropped
\*   "wait"     the candidate is not complete yet
\*   "emit"     the candidate's checksum matches
\*   "mismatch" the candidate's checksum does not match
framerStep(rest) ==
    IF Len(rest) = 0 THEN "idle"
    ELSE IF rest[1] # SyncByte THEN "resync"
    ELSE IF Len(rest) < HeaderLen THEN "wait"
    ELSE IF Len(rest) < HeaderLen + rest[HeaderLen] + 1 THEN "wait"
    ELSE LET len == rest[HeaderLen]
         IN  IF rest[HeaderLen + len + 1] = checksumOf(SubSeq(rest, 2, HeaderLen + len))
             THEN "emit" ELSE "mismatch"

\* the CAN frame of a complete candidate
candidateFrame(rest) ==
    [type |-> rest[2], id |-> SubSeq(rest, 3, 6),
     data |-> SubSeq(rest, HeaderLen + 1, HeaderLen + rest[HeaderLen])]

\* the pieces a sampled stream is put together from: noise, a lone sync
\* byte, two well-formed frames (one with a sync byte in its data), and two
\* damaged copies of a frame, one with a wrong checksum and one whose len
\* byte reaches over the bytes that follow
GoodFrameA == [type |-> 1, id |-> <<24, 40, 1, 2>>, data |-> <<185, 31>>]
GoodFrameB == [type |-> 2, id |-> <<24, 12, 0, 1>>, data |-> <<170, 1, 0, 0, 0, 0>>]

BadChecksum(bytes) ==
    [bytes EXCEPT ![Len(bytes)] = (bytes[Len(bytes)] + 1) % 256]
BadLength(bytes) == [bytes EXCEPT ![HeaderLen] = 8]

StreamPieces ==
    { [kind |-> "noise", bytes |-> <<0, 85>>, frame |-> GoodFrameA],
      [kind |-> "noise", bytes |-> <<SyncByte>>, frame |-> GoodFrameA],
      [kind |-> "good", frame |-> GoodFrameA,
       bytes |-> adapterFrame(GoodFrameA.type, GoodFrameA.id, GoodFrameA.data)],
      [kind |-> "good", frame |-> GoodFrameB,
       bytes |-> adapterFrame(GoodFrameB.type, GoodFrameB.id, GoodFrameB.data)],
      [kind |-> "bad", frame |-> GoodFrameA,
       bytes |-> BadChecksum(adapterFrame(GoodFrameA.type, GoodFrameA.id, GoodFrameA.data))],
      [kind |-> "bad", frame |-> GoodFrameA,
       bytes |-> BadLength(adapterFrame(GoodFrameA.type, GoodFrameA.id, GoodFrameA.data))] }

MaxStreamPieces == 3

RECURSIVE Concat(_)
Concat(pieces) ==
    IF Len(pieces) = 0 THEN <<>> ELSE Head(pieces).bytes \o Concat(Tail(pieces))

FramerInputs ==
    { [kind |-> "stream", pieces |-> ps, bytes |-> Concat(ps)] :
          ps \in UNION { [1..n -> StreamPieces] : n \in 0..MaxStreamPieces } }

FramerState(rest, frames, step) ==
    [kind |-> "framer", rest |-> rest, frames |-> frames, step |-> step]

\* (1) a byte that is no sync byte is discarded
FramerResync ==
    /\ frameOut.kind = "framer"
    /\ framerStep(frameOut.rest) = "resync"
    /\ frameOut' = FramerState(Tail(frameOut.rest), frameOut.frames, "resync")
    /\ UNCHANGED <<storeVars, clock, lastOp, created, lastId, sessionLastId, frameIn, bmsVars>>

\* (4) the checksum matches: the CAN frame is produced and the whole
\* candidate consumed
FramerEmit ==
    /\ frameOut.kind = "framer"
    /\ framerStep(frameOut.rest) = "emit"
    /\ LET rest == frameOut.rest
           size == HeaderLen + rest[HeaderLen] + 1
       IN  frameOut' = FramerState(SubSeq(rest, size + 1, Len(rest)),
                                   Append(frameOut.frames, candidateFrame(rest)), "emit")
    /\ UNCHANGED <<storeVars, clock, lastOp, created, lastId, sessionLastId, frameIn, bmsVars>>

\* FramerMismatch that throws the whole candidate away
FramerMismatchSkipCandidate ==
    /\ frameOut.kind = "framer"
    /\ framerStep(frameOut.rest) = "mismatch"
    /\ LET rest == frameOut.rest
           size == HeaderLen + rest[HeaderLen] + 1
       IN  frameOut' = FramerState(SubSeq(rest, size + 1, Len(rest)),
                                   frameOut.frames, "mismatch")
    /\ UNCHANGED <<storeVars, clock, lastOp, created, lastId, sessionLastId, frameIn, bmsVars>>

\* (4) the checksum does not match: the candidate is discarded and scanning
\* resumes at the byte after its sync byte
FramerMismatch ==
    /\ frameOut.kind = "framer"
    /\ framerStep(frameOut.rest) = "mismatch"
    /\ frameOut' = FramerState(Tail(frameOut.rest), frameOut.frames, "mismatch")
    /\ UNCHANGED <<storeVars, clock, lastOp, created, lastId, sessionLastId, frameIn, bmsVars>>

InitFramer ==
    /\ logs = <<>>
    /\ isRecording = FALSE
    /\ logIdCounter = 0
    /\ maxLogs = DefaultMaxLogs
    /\ clock = 0
    /\ lastOp = "init"
    /\ created = <<>>
    /\ lastId = -1
    /\ sessionLastId = -1
    /\ frameIn \in FramerInputs
    /\ frameOut = FramerState(frameIn.bytes, <<>>, "start")
    /\ BmsIdle

NextFramer == FramerResync \/ FramerEmit \/ FramerMismatch

SpecFramer == InitFramer /\ [][NextFramer]_vars

-----------------------------------------------------------------------------
(* bmsStore: connect, disconnect, polling and fetchBmsData (SpecBms).  Each
   action is the code between two awaits of one call; the backend answers the
   awaited invokes in any order and with either outcome. *)

MaxConnects == 2
MaxDisconnects == 2
MaxFetches == 2

debugVars == <<storeVars, clock, lastOp, created, lastId, sessionLastId, harnessVars>>

\* call number n of op, awaiting at pc
Call(op, pc, n) == [op |-> op, pc |-> pc, n |-> n]

\* fetchBmsData() up to its first await: if (!connected) return;
\* await invoke('query_all_data')
fetchBmsDataStart(p, st, conn) ==
    IF ~conn THEN [pending |-> p, started |-> st]
    ELSE [pending |-> p \cup {Call("fetch", "query", st.fetch + 1)},
          started |-> [st EXCEPT !.fetch = @ + 1]]

\* handleConnect: the Connect button is shown while connected is false.
\* connect() up to await invoke('connect', { config })
CallConnect ==
    /\ ~connected
    /\ started.connect < MaxConnects
    /\ pending' = pending \cup {Call("connect", "invoke", started.connect + 1)}
    /\ started' = [started EXCEPT !.connect = @ + 1]
    /\ UNCHANGED <<connected, canFrameUnlisten, pollingInterval, bmsData, listeners,
                   timers, lastLink, debugVars>>

\* invoke('connect') answers: on success connected = true and connect goes
\* on to await listen('can-frame', ...); otherwise it returns false
ConnectInvokeReturns(c, success) ==
    /\ c \in pending
    /\ c.op = "connect"
    /\ c.pc = "invoke"
    /\ IF success
       THEN /\ connected' = TRUE
            /\ lastLink' = "connect"
            /\ pending' = (pending \ {c}) \cup {Call("connect", "listen", c.n)}
       ELSE /\ pending' = pending \ {c}
            /\ UNCHANGED <<connected, lastLink>>
    /\ UNCHANGED <<canFrameUnlisten, pollingInterval, bmsData, listeners, timers,
                   started, debugVars>>

\* listen() answers: the listener is registered, canFrameUnlisten is assigned
\* its handle, then startPolling(): if (pollingInterval) return;
\* pollingInterval = setInterval(...); fetchBmsData()
ConnectListenReturns(c) ==
    /\ c \in pending
    /\ c.op = "connect"
    /\ c.pc = "listen"
    /\ LET handle == started.listen + 1
           timer == started.timer + 1
           st == [started EXCEPT !.listen = handle]
       IN  /\ listeners' = listeners \cup {handle}
           /\ canFrameUnlisten' = handle
           /\ IF pollingInterval # 0
              THEN /\ pending' = pending \ {c}
                   /\ started' = st
                   /\ UNCHANGED <<pollingInterval, timers>>
              ELSE /\ connected => started.fetch < MaxFetches
                   /\ pollingInterval' = timer
                   /\ timers' = timers \cup {timer}
                   /\ LET f == fetchBmsDataStart(pending \ {c},
                                                 [st EXCEPT !.timer = timer], connected)
                      IN  /\ pending' = f.pending
                          /\ started' = f.started
    /\ UNCHANGED <<connected, bmsData, lastLink, debugVars>>

\* handleDisconnect: the Disconnect button is shown while connected is true.
\* disconnect() up to await invoke('disconnect'): stopPolling(), then the
\* listener of canFrameUnlisten is removed
CallDisconnect ==
    /\ connected
    /\ started.disconnect < MaxDisconnects
    /\ timers' = IF pollingInterval # 0 THEN timers \ {pollingInterval} ELSE timers
    /\ pollingInterval' = 0
    /\ listeners' = IF canFrameUnlisten # 0 THEN listeners \ {canFrameUnlisten}
                    ELSE listeners
    /\ canFrameUnlisten' = 0
    /\ pending' = pending \cup {Call("disconnect", "invoke", started.disconnect + 1)}
    /\ started' = [started EXCEPT !.disconnect = @ + 1]
    /\ UNCHANGED <<connected, bmsData, lastLink, debugVars>>

\* invoke('disconnect') answers: connected = false and bmsData is reset, or
\* it throws and the catch only logs the error; disconnect() returns
DisconnectInvokeReturns(d, ok) ==
    /\ d \in pending
    /\ d.op = "disconnect"
    /\ IF ok
       THEN /\ connected' = FALSE
            /\ bmsData' = 0
       ELSE UNCHANGED <<connected, bmsData>>
    /\ lastLink' = "disconnect"
    /\ pending' = pending \ {d}
    /\ UNCHANGED <<canFrameUnlisten, pollingInterval, listeners, timers, started,
                   debugVars>>

\* the interval timer fires: fetchBmsData()
TimerFires(t) ==
    /\ t \in timers
    /\ connected
    /\ started.fetch < MaxFetches
    /\ LET f == fetchBmsDataStart(pending, started, connected)
       IN  /\ pending' = f.pending
           /\ started' = f.started
    /\ UNCHANGED <<connected, canFrameUnlisten, pollingInterval, bmsData, listeners,
                   timers, lastLink, debugVars>>

\* invoke('query_all_data') answers: fetchBmsData goes on to await
\* invoke('get_bms_data'), or the catch ends it
FetchQueryReturns(f, ok) ==
    /\ f \in pending
    /\ f.op = "fetch"
    /\ f.pc = "query"
    /\ pending' = IF ok THEN (pending \ {f}) \cup {Call("fetch", "get", f.n)}
                  ELSE pending \ {f}
    /\ UNCHANGED <<connected, canFrameUnlisten, pollingInterval, bmsData, listeners,
                   timers, started, lastLink, debugVars>>

\* invoke('get_bms_data') answers: bmsData = the data received, or the catch
\* ends the call
FetchGetReturns(f, ok) ==
    /\ f \in pending
    /\ f.op = "fetch"
    /\ f.pc = "get"
    /\ bmsData' = IF ok THEN f.n ELSE bmsData
    /\ pending' = pending \ {f}
    /\ UNCHANGED <<connected, canFrameUnlisten, pollingInterval, listeners, timers,
                   started, lastLink, debugVars>>

\* the frame of a 'can-frame' event
EventFrame ==
    [direction |-> "RX", frameId |-> MkId(1, 130, 1, 128, 0), data |-> <<185, 31, 56, 0>>]

RECURSIVE Deliver(_, _, _, _, _)
\* the handlers of k listeners run on one event:
\* if (getIsRecording()) logCanFrame(direction, frame_id, data)
Deliver(s, rec, cap, k, now) ==
    IF k = 0 \/ ~rec THEN s
    ELSE LET next == logCanFrame(s, rec, cap, EventFrame.direction, EventFrame.frameId,
                                 EventFrame.data, now)
         IN  IF next = s THEN s ELSE Deliver(next, rec, cap, k - 1, now)

\* the backend emits a 'can-frame' event while it queries the BMS; every
\* registered listener handles it
CanFrameEvent ==
    /\ \E f \in pending : f.op = "fetch" /\ f.pc = "query"
    /\ listeners # {}
    /\ logIdCounter < MaxCounter
    /\ Commit("logCanFrame",
              Deliver(StoreOf(logs, logIdCounter), isRecording, maxLogs,
                      Cardinality(listeners), clock))
    /\ UNCHANGED <<isRecording, maxLogs, clock, harnessVars, bmsVars>>

\* the debug log is recording, bmsStore has not connected yet
InitBms ==
    /\ logs = <<>>
    /\ isRecording = TRUE
    /\ logIdCounter = 0
    /\ maxLogs = DefaultMaxLogs
    /\ clock = 0
    /\ lastOp = "startRecording"
    /\ created = <<>>
    /\ lastId = -1
    /\ sessionLastId = -1
    /\ frameIn = NoFrame
    /\ frameOut = NoFrame
    /\ BmsIdle

NextBms ==
    \/ CallConnect
    \/ \E c \in pending : \E success \in BOOLEAN : ConnectInvokeReturns(c, success)
    \/ \E c \in pending : ConnectListenReturns(c)
    \/ CallDisconnect
    \/ \E d \in pending : \E ok \in BOOLEAN : DisconnectInvokeReturns(d, ok)
    \/ \E t \in timers : TimerFires(t)
    \/ \E f \in pending : \E ok \in BOOLEAN : FetchQueryReturns(f, ok)
    \/ \E f \in pending : \E ok \in BOOLEAN : FetchGetReturns(f, ok)
    \/ CanFrameEvent

SpecBms == InitBms /\ [][NextBms]_vars

-----------------------------------------------------------------------------
(* Properties of the debug log store, checked under Spec *)

AppendOps == {"addLogEntry", "logCanFrame", "generateTestData"}
FrameOps == {"addLogEntry", "logCanFrame"}

IsSuffix(a, b) ==
    /\ Len(a) <= Len(b)
    /\ a = SubSeq(b, Len(b) - Len(a) + 1, Len(b))

\* C1: in every reachable state the number of retained entries is at most
\* maxLogs, also right after setMaxLogs lowers the maximum and for maxLogs = 0.
\* The code does not keep this: setMaxLogs does not trim the log, and
\* slice(-0) keeps every entry.
C1_LogWithinMaxLogs == Len(logs) <= maxLogs

\* C2: while recording with exactly maxLogs >= 1 entries retained, one
\* addLogEntry / logCanFrame removes exactly the first entry and places the
\* new entry (which takes the id logIdCounter) last, the others keeping
\* their order.
C2_FullLogEvictsOldest ==
    [][ ( /\ isRecording
          /\ maxLogs >= 1
          /\ Len(logs) = maxLogs
          /\ lastOp' \in FrameOps )
        => /\ Len(created') = 1
           /\ created'[1].id = logIdCounter
           /\ logs' = Append(Tail(logs), created'[1]) ]_vars

\* C2 happens: maxLogs + 1 entries were appended since startRecording and
\* the log holds the 2nd to the (maxLogs + 1)th of them (ids 1..maxLogs).
C2_Witness ==
    /\ isRecording
    /\ lastOp \in FrameOps
    /\ maxLogs >= 2
    /\ logIdCounter = maxLogs + 1
    /\ Len(logs) = maxLogs
    /\ \A i \in 1..Len(logs) : logs[i].id = i

\* C3 as stated: every entry created gets an id strictly greater than the
\* id of every entry created before it since the process started.
C3_IdsNeverReused ==
    [][ \A i \in 1..Len(created') :
          created'[i].id > (IF i = 1 THEN lastId ELSE created'[i - 1].id) ]_vars

\* C3 amended: every entry created gets an id strictly greater than the id
\* of every entry created since the last startRecording or clearLogs.
C3_IdsIncreaseWithinSession ==
    [][ \A i \in 1..Len(created') :
          created'[i].id > (IF i = 1 THEN sessionLastId ELSE created'[i - 1].id) ]_vars

\* C3 amended happens: an entry was created after a reset that followed
\* earlier entries, and it is not the first of its session.
C3_Witness ==
    /\ created # <<>>
    /\ sessionLastId >= 1
    /\ lastId = sessionLastId
    /\ Len(logs) < logIdCounter

\* C4: while isRecording is false, addLogEntry, logCanFrame and
\* generateTestData leave logs, logIdCounter, maxLogs and isRecording unchanged.
C4_NoOpWhenNotRecording ==
    [][ (~isRecording /\ lastOp' \in AppendOps)
        => /\ logs' = logs
           /\ logIdCounter' = logIdCounter
           /\ maxLogs' = maxLogs
           /\ isRecording' = isRecording
           /\ created' = <<>> ]_vars

\* C4 happens: generateTestData returned while not recording, on a store
\* that held entries.
C4_Witness ==
    /\ ~isRecording
    /\ lastOp = "generateTestData"
    /\ logs # <<>>
    /\ logIdCounter > 0

\* C5: startRecording, from any state, leaves isRecording = TRUE, an empty
\* log and logIdCounter = 0 with maxLogs unchanged, and the first entry
\* appended afterwards has id 0.
C5_StartRecordingResets ==
    [][ /\ (lastOp' = "startRecording"
              => /\ isRecording'
                 /\ logs' = <<>>
                 /\ logIdCounter' = 0
                 /\ maxLogs' = maxLogs)
        /\ ((lastOp = "startRecording" /\ created' # <<>>)
              => created'[1].id = 0) ]_vars

\* C5 happens: startRecording was called on a store that had already
\* created entries, with a changed maxLogs.
C5_Witness ==
    /\ lastOp = "startRecording"
    /\ lastId >= 1
    /\ maxLogs # DefaultMaxLogs
    /\ isRecording
    /\ logs = <<>>

\* C6: stopRecording sets isRecording to FALSE and leaves logs, logIdCounter
\* and maxLogs unchanged; while isRecording is FALSE no step creates or adds
\* an entry.
C6_StopRecordingRetains ==
    [][ /\ (lastOp' = "stopRecording"
              => /\ ~isRecording'
                 /\ logs' = logs
                 /\ logIdCounter' = logIdCounter
                 /\ maxLogs' = maxLogs)
        /\ (~isRecording => (created' = <<>> /\ logs' \in {logs, <<>>})) ]_vars

\* C6 happens: stopRecording was called while entries were retained.
C6_Witness ==
    /\ lastOp = "stopRecording"
    /\ ~isRecording
    /\ Len(logs) >= 2
    /\ logIdCounter > Len(logs)

\* C7: every step other than startRecording and clearLogs leaves a log that
\* is a suffix of the old log followed by the entries the step created:
\* entries are only added at the end and removed from the front, and a
\* retained entry keeps all its field values and its relative position.
C7_AppendOnly ==
    [][ lastOp' \notin {"startRecording", "clearLogs"}
        => IsSuffix(logs', logs \o created') ]_vars

\* C7 happens: an append evicted from the front and kept two or more entries.
C7_Witness ==
    /\ lastOp \in AppendOps
    /\ created # <<>>
    /\ Len(logs) >= 2
    /\ logs[1].id > 0
    /\ logs[Len(logs)] = created[Len(created)]

-----------------------------------------------------------------------------
(* Properties of the identifier codec, checked under SpecCodec *)

\* C8: for all five identifier fields within their widths, decoding the
\* identifier built by OR-ing the shifted fields returns the same five fields.
C8_CodecRoundTrip ==
    frameOut.kind = "decoded" => frameOut.fields = FieldsOf(frameIn)

\* C8 happens: an identifier with every field non-zero was encoded and decoded.
C8_Witness ==
    /\ frameOut.kind = "decoded"
    /\ frameIn.ptp = 1
    /\ frameIn.cnt = 1
    /\ frameIn.commandCode = 255
    /\ frameIn.destination = 128
    /\ frameIn.source = 85
    /\ frameOut.id = MkId(1, 255, 128, 85, 8)

\* C9: logCanFrame records commandCode = bits 27..20, destination = bits
\* 19..12 and source = bits 11..4 of the identifier; each is in 0..255 and
\* none depends on bit 28, bit 3 or bits 2..0.
C9_FieldExtraction ==
    frameOut.kind = "extracted"
    => /\ frameOut.entry.commandCode = frameIn.commandCode
       /\ frameOut.entry.destination = frameIn.destination
       /\ frameOut.entry.source = frameIn.source
       /\ frameOut.entry.commandCode \in 0..255
       /\ frameOut.entry.destination \in 0..255
       /\ frameOut.entry.source \in 0..255
       /\ frameOut.entry.frameId = IdOf(frameIn)

\* C9 happens: fields were extracted from an identifier with bit 28, bit 3
\* and bits 2..0 all set and distinct non-zero fields.
C9_Witness ==
    /\ frameOut.kind = "extracted"
    /\ frameIn.ptp = 1
    /\ frameIn.cnt = 1
    /\ frameIn.low = 7
    /\ frameOut.entry.commandCode = 128
    /\ frameOut.entry.destination = 255
    /\ frameOut.entry.source = 1

-----------------------------------------------------------------------------
(* Properties of the payload decoder, checked under SpecDecode *)

\* the payload length each fixed-length command requires, as C10 lists them
C10_RequiredLength(commandCode) ==
    CASE commandCode = 128 -> 8
      [] commandCode = 129 -> 6
      [] commandCode = 130 -> 4
      [] commandCode = 131 -> 8
      [] commandCode = 132 -> 8
      [] commandCode = 133 -> 4
      [] commandCode = 134 -> 4
      [] commandCode = 135 -> 8
      [] commandCode = 192 -> 8
      [] OTHER -> 0

\* C10: for each fixed-length command (0x80..0x87, 0xC0) and every payload
\* shorter than its required length, parseDataValue returns 'Insufficient
\* data'. The code does not keep this for 0xC0, whose branch has no length
\* test: a payload of 2..7 bytes is decoded with the missing bytes read as 0.
C10_ShortPayloadInsufficient ==
    ( /\ frameOut.kind = "parsed"
      /\ Len(frameIn.data) < C10_RequiredLength(frameIn.commandCode) )
    => frameOut.value = InsufficientData


\* the command codes with a case in the switch of parseDataValue
C11_DecodedCommands == {128, 129, 130, 131, 132, 133, 134, 135, 143, 192}

\* C11: for every command code without a decoder (0xD0 among them) and
\* every payload of 0..8 bytes, parseDataValue returns the 'Raw: <hex>' text
\* of the payload, never 'Insufficient data' or 'Parse error'. The code does
\* not keep this: the data.length < 2 test comes before the switch, so a
\* payload of 0 or 1 bytes yields 'Insufficient data' whatever the command.
C11_UnknownCommandIsRaw ==
    ( /\ frameOut.kind = "parsed"
      /\ frameIn.commandCode \notin C11_DecodedCommands )
    => /\ frameOut.value.text = "Raw: %s"
       /\ frameOut.value.names = DataHex(frameIn.data)
       /\ frameOut.value # InsufficientData
       /\ frameOut.value # ParseError

\* r > 32767 ? r - 65536 : r for the 16-bit value with low byte lo, high byte hi
C12_Expected(lo, hi) ==
    LET r == lo + 256 * hi
    IN  IF r <= 32767 THEN r ELSE r - 65536

\* C12: the 0x82 current and the 0x84 maximum and minimum temperature, in
\* tenths, are the two's complement reading of their two bytes (low byte
\* first), always in -32768..32767.
C12_SignedReconstruction ==
    /\ ( /\ frameOut.kind = "parsed"
         /\ frameIn.commandCode = 130
         /\ Len(frameIn.data) >= 4 )
       => /\ frameOut.value.nums[2] = C12_Expected(frameIn.data[3], frameIn.data[4])
          /\ frameOut.value.nums[2] \in (-32768)..32767
    /\ ( /\ frameOut.kind = "parsed"
         /\ frameIn.commandCode = 132
         /\ Len(frameIn.data) >= 8 )
       => /\ frameOut.value.nums[1] = C12_Expected(frameIn.data[1], frameIn.data[2])
          /\ frameOut.value.nums[4] = C12_Expected(frameIn.data[5], frameIn.data[6])
          /\ frameOut.value.nums[1] \in (-32768)..32767
          /\ frameOut.value.nums[4] \in (-32768)..32767

\* C12 happens: a 0x82 payload with current bytes FF FF was decoded to -0.1 A.
C12_Witness ==
    /\ frameOut.kind = "parsed"
    /\ frameIn.commandCode = 130
    /\ Len(frameIn.data) = 8
    /\ frameIn.data[3] = 255
    /\ frameIn.data[4] = 255
    /\ frameIn.data[1] = 1
    /\ frameOut.value.nums[2] = -1

\* n is the unsigned 32-bit little-endian integer of the bytes b0..b3
C13_IsUnsignedLE(n, b0, b1, b2, b3) ==
    /\ n >= 0
    /\ n % 256 = b0
    /\ (n \div 256) % 256 = b1
    /\ (n \div 65536) % 256 = b2
    /\ n \div 16777216 = b3

\* C13: for every 8-byte payload the 0x87 charge and discharge energies, in
\* tenths, are the unsigned 32-bit little-endian integers of bytes 0..3 and
\* 4..7, so never negative. The code does not keep this: data[3] << 24 is a
\* signed 32-bit value, negative when the top byte is 0x80 or more.
C13_EnergyUnsigned ==
    ( /\ frameOut.kind = "parsed"
      /\ frameIn.commandCode = 135
      /\ Len(frameIn.data) >= 8 )
    => /\ C13_IsUnsignedLE(frameOut.value.nums[1], frameIn.data[1], frameIn.data[2],
                           frameIn.data[3], frameIn.data[4])
       /\ C13_IsUnsignedLE(frameOut.value.nums[2], frameIn.data[5], frameIn.data[6],
                           frameIn.data[7], frameIn.data[8])

\* data[k] + 256 * data[k + 1], offsets counted from 0
C14_Word(data, k) == data[k + 1] + 256 * data[k + 2]

\* C14: every unsigned 16-bit field of 0x80, 0x81, 0x82 (voltage), 0x83 and
\* 0x86 decodes to data[k] + 256 * data[k + 1] before scaling.
C14_LittleEndianFields ==
    ( /\ frameOut.kind = "parsed"
      /\ Len(frameIn.data) >= BranchMinLength(frameIn.commandCode)
      /\ Len(frameIn.data) >= 2 )
    => LET d == frameIn.data
           n == frameOut.value.nums
       IN  /\ frameIn.commandCode = 128
                => n = <<C14_Word(d, 0), C14_Word(d, 2), C14_Word(d, 4), C14_Word(d, 6)>>
           /\ frameIn.commandCode = 129
                => n = <<C14_Word(d, 0), C14_Word(d, 2), C14_Word(d, 4)>>
           /\ frameIn.commandCode = 130 => n[1] = C14_Word(d, 0)
           /\ frameIn.commandCode = 131
                => (n[1] = C14_Word(d, 0) /\ n[4] = C14_Word(d, 4))
           /\ frameIn.commandCode = 134
                => n = <<C14_Word(d, 0), C14_Word(d, 2)>>
           /\ frameIn.commandCode \in {128, 129, 134}
                => \A i \in 1..Len(n) : n[i] \in 0..65535

\* C14 happens: the 0x80 payload 90 21 E8 03 40 1A E8 03 was decoded to the
\* raw values 8592, 1000, 6720, 1000.
C14_Witness ==
    /\ frameOut.kind = "parsed"
    /\ frameIn.commandCode = 128
    /\ frameIn.data = <<144, 33, 232, 3, 64, 26, 232, 3>>
    /\ frameOut.value.nums = <<8592, 1000, 6720, 1000>>

\* the positions 8 * i + b such that bit b of byte i of data is set
C15_SetPositions(data) ==
    { k \in 0..63 : (data[(k \div 8) + 1] \div (2 ^ (k % 8))) % 2 = 1 }

\* C15: for every 8-byte 0xC0 payload the decoded positions are exactly the
\* set bit positions, each once, ascending; the result is 'No alarms' when
\* and only when all 8 bytes are zero.
C15_AlarmPositions ==
    ( /\ frameOut.kind = "parsed"
      /\ frameIn.commandCode = 192
      /\ Len(frameIn.data) = 8 )
    => LET n == frameOut.value.nums
       IN  /\ { n[i] : i \in 1..Len(n) } = C15_SetPositions(frameIn.data)
           /\ \A i \in 1..(Len(n) - 1) : n[i] < n[i + 1]
           /\ (frameOut.value.text = "No alarms")
                <=> (\A i \in 1..8 : frameIn.data[i] = 0)
           /\ frameOut.value.text \in {"No alarms", "Alarms: %s"}

\* C15 happens: a mask with bits in several bytes was decoded.
C15_Witness ==
    /\ frameOut.kind = "parsed"
    /\ frameIn.commandCode = 192
    /\ frameIn.data = <<1, 128, 85, 0, 85, 0, 1, 128>>
    /\ frameOut.value.nums = <<0, 15, 16, 18, 20, 22, 32, 34, 36, 38, 48, 63>>

-----------------------------------------------------------------------------
(* Properties of the severity table, the alarm status and the name lookups,
   checked under SpecTables *)

C16_Level3 == {0, 1, 14} \cup (18..32)
C16_Level2 == 2..9

\* C16: getAlarmSeverity follows the static severity table on every bit
\* position 0..63: 3 for the bits {0, 1, 14, 18..32}, 2 for the bits {2..9}
\* and 1 for every other bit, the reserved bit 17 included; on every key the
\* result is one of 1, 2, 3.
C16_SeverityTable ==
    frameOut.kind = "names" =>
        /\ frameOut.severity \in {1, 2, 3}
        /\ frameIn.key \in 0..63 =>
              frameOut.severity = IF frameIn.key \in C16_Level3 THEN 3
                                  ELSE IF frameIn.key \in C16_Level2 THEN 2
                                  ELSE 1
        /\ frameIn.key = 17 => frameOut.severity = 1

\* the lookup ran on the reserved bit 17 and gave severity 1
C16_Witness ==
    /\ frameOut.kind = "names"
    /\ frameIn.key = 17
    /\ frameOut.severity = 1

\* the bit positions set in the 8 bytes of a mask, byte i holding bits
\* 8i..8i+7
C17_SetBits(data) ==
    { k \in 0..63 : (data[(k \div 8) + 1] \div (2 ^ (k % 8))) % 2 = 1 }

\* C17: for every alarm mask the active positions are the set bits of the
\* mask and maxSeverity is the maximum of getAlarmSeverity over them: no
\* active bit is more severe, some active bit is that severe, and it is 0
\* exactly when no bit is active; the mask with bits 0 and 5 set gives the
\* active set {0, 5} and maxSeverity 3.
C17_MaxSeverity ==
    frameOut.kind = "alarms" =>
        LET status == frameOut.status
            active == { status.activeAlarms[i] : i \in 1..Len(status.activeAlarms) }
        IN  /\ active = C17_SetBits(frameIn.data)
            /\ \A b \in active : getAlarmSeverity(b) <= status.maxSeverity
            /\ active # {} =>
                  \E b \in active : getAlarmSeverity(b) = status.maxSeverity
            /\ active = {} <=> status.maxSeverity = 0
            /\ frameIn.data = <<33, 0, 0, 0, 0, 0, 0, 0>> =>
                  /\ status.activeAlarms = <<0, 5>>
                  /\ status.maxSeverity = 3

\* the status of a mask whose first active bit is less severe than a later
\* one (bits 8..15: bit 8 has severity 2, bit 14 severity 3) was derived
C17_Witness ==
    /\ frameOut.kind = "alarms"
    /\ frameIn.data = <<0, 255, 0, 0, 0, 0, 0, 0>>
    /\ frameOut.status.maxSeverity = 3

C18_TableKeys == (0..40) \ {17}

C19_UnknownBit(n) == [text |-> "Unknown (bit %d)", nums |-> <<n>>, names |-> NoNames]

\* C19: every name lookup is total: for every key 0..255, getCommandName,
\* getSystemStatusName, getWorkStatusName, getOperationStatusName,
\* getAlarmDescription and the AlarmList lookup return the table's name for
\* a key of the table and the fallback otherwise; for an alarm bit outside
\* the table the fallback is "Unknown (bit N)" with N the bit position.
C19_LookupsTotal ==
    frameOut.kind = "names" =>
        LET key == frameIn.key
        IN  /\ frameOut.commandName =
                  IF key \in CommandCodes THEN Plain(CommandTable(key))
                  ELSE [text |-> "Unknown (0x%s)", nums |-> NoNums,
                        names |-> HexDigits(key)]
            /\ frameOut.systemStatus =
                  IF key < 8 THEN SystemStatusTable[key + 1] ELSE "Unknown"
            /\ frameOut.workStatus =
                  IF key < 3 THEN WorkStatusTable[key + 1] ELSE "Unknown"
            /\ frameOut.operationStatus =
                  IF key < 4 THEN OperationStatusTable[key + 1] ELSE "Unknown"
            /\ frameOut.description =
                  IF key \in Keys(descriptions)
                  THEN Plain(TableAt(descriptions, key))
                  ELSE C19_UnknownBit(key)
            /\ frameOut.listDescription =
                  IF key \in Keys(alarmDescriptions)
                  THEN Plain(TableAt(alarmDescriptions, key))
                  ELSE C19_UnknownBit(key)

-----------------------------------------------------------------------------
(* Properties of exportToCsv, checked under SpecExport *)

\* position i of s lies inside a quoted field
C20_InQuotes(s, i) == Cardinality({ j \in 1..(i - 1) : s[j] = QuoteChar }) % 2 = 1

\* the parts of s between the occurrences of sep that lie outside quotes
C20_Split(s, sep) ==
    LET breaks == { i \in 1..Len(s) : s[i] = sep /\ ~C20_InQuotes(s, i) }
        n == Cardinality(breaks)
        break(k) == IF k = 0 THEN 0
                    ELSE IF k = n + 1 THEN Len(s) + 1
                    ELSE CHOOSE i \in breaks :
                            Cardinality({ j \in breaks : j < i }) = k - 1
    IN  [k \in 1..(n + 1) |-> SubSeq(s, break(k - 1) + 1, break(k) - 1)]

\* v with every double quote written twice: v[i] stands at position i plus
\* the number of quotes before it, and a quote also at the position after
C20_Doubled(v) ==
    LET before(i) == Cardinality({ j \in 1..(i - 1) : v[j] = QuoteChar })
        places(i) == IF v[i] = QuoteChar THEN {i + before(i), i + before(i) + 1}
                     ELSE {i + before(i)}
    IN  [p \in 1..(Len(v) + before(Len(v) + 1)) |->
            v[CHOOSE i \in 1..Len(v) : p \in places(i)]]

\* C20: exportToCsv produces one header line followed by exactly one row per
\* log entry in log order; in each row the parsed-summary field, the last of
\* ten, is the entry's parsedValue wrapped in double quotes with every
\* embedded double quote doubled.
C20_CsvRows ==
    frameOut.kind = "csv" =>
        LET rows == C20_Split(frameOut.text, NewlineChar)
        IN  /\ Len(rows) = Len(logs) + 1
            /\ C20_Split(rows[1], CommaChar) =
                  [i \in 1..Len(CsvHeaders) |-> <<Run(Plain(CsvHeaders[i]))>>]
            /\ \A k \in 1..Len(logs) :
                  LET fields == C20_Split(rows[k + 1], CommaChar)
                  IN  /\ Len(fields) = Len(CsvHeaders)
                      /\ fields[1] = <<Run([text |-> "%d", nums |-> <<logs[k].id>>,
                                            names |-> NoNames])>>
                      /\ fields[Len(CsvHeaders)] =
                            <<QuoteChar>>
                               \o C20_Doubled(ValueChars(logs[k].parsedValue))
                               \o <<QuoteChar>>

\* an export of three entries whose second is the version string with two
\* double quotes, a line break and a comma
C20_Witness ==
    /\ frameOut.kind = "csv"
    /\ Len(logs) = 3
    /\ logs[2].parsedValue.text = "Version: %s"
    /\ logs[2].parsedValue.nums = <<34, 10, 44, 34>>

\* C21: exportToCsv and exportToJson are pure serializations: a call leaves
\* the log, the id counter, the recording flag and maxLogs unchanged, its
\* text is the serialization of the current entries alone, and it equals the
\* text of the previous call of the same export, whatever stopRecording,
\* setMaxLogs or the passing of time did in between.
C21_ExportsPure ==
    [][ lastOp' \in {"exportToCsv", "exportToJson"} =>
          /\ logs' = logs
          /\ logIdCounter' = logIdCounter
          /\ isRecording' = isRecording
          /\ maxLogs' = maxLogs
          /\ frameOut'.text = IF frameOut'.kind = "csv" THEN exportToCsv(logs)
                              ELSE exportToJson(logs)
          /\ frameOut.kind = frameOut'.kind => frameOut'.text = frameOut.text ]_vars

\* a JSON export of two entries made after stopRecording and setMaxLogs(0)
C21_Witness ==
    /\ lastOp = "exportToJson"
    /\ frameOut.kind = "json"
    /\ Len(logs) = 2
    /\ ~isRecording
    /\ maxLogs = 0

-----------------------------------------------------------------------------
(* Further properties of the debug log store, checked under Spec *)

\* C22: decoding is a function of the command code and the payload bytes
\* alone: any two retained entries with the same commandCode and the same
\* data have the same command name and the same parsedValue, whatever their
\* ids, timestamps, directions and identifiers and whatever happened before
\* they were appended; each is what getCommandName and parseDataValue give
\* for that pair.
C22_DecodingPure ==
    /\ \A i \in 1..Len(logs) :
          /\ logs[i].command = getCommandName(logs[i].commandCode)
          /\ logs[i].parsedValue = parseDataValue(logs[i].commandCode, logs[i].data)
    /\ \A i \in 1..Len(logs) : \A j \in 1..Len(logs) :
          (logs[i].commandCode = logs[j].commandCode /\ logs[i].data = logs[j].data)
             => /\ logs[i].command = logs[j].command
                /\ logs[i].parsedValue = logs[j].parsedValue

\* two retained entries with the same command code and payload that differ
\* in id, timestamp, direction and identifier
C22_Witness ==
    \E i \in 1..Len(logs) : \E j \in 1..Len(logs) :
        /\ logs[i].commandCode = logs[j].commandCode
        /\ logs[i].data = logs[j].data
        /\ logs[i].direction # logs[j].direction
        /\ logs[i].frameId # logs[j].frameId
        /\ logs[i].timestamp # logs[j].timestamp
        /\ logs[i].id # logs[j].id

\* C25: clearLogs empties the log and resets the id counter to 0 and leaves
\* isRecording and maxLogs as they were; when it was called while recording,
\* intake continues: the next append creates its first entry with id 0 and
\* the log ends with what it created.
C25_ClearLogs ==
    [][ /\ lastOp' = "clearLogs" =>
              /\ logs' = <<>>
              /\ logIdCounter' = 0
              /\ isRecording' = isRecording
              /\ maxLogs' = maxLogs
        /\ (lastOp = "clearLogs" /\ isRecording /\ lastOp' \in AppendOps) =>
              /\ created' # <<>>
              /\ created'[1].id = 0
              /\ logs' # <<>>
              /\ logs'[Len(logs')] = created'[Len(created')]
              /\ isRecording' ]_vars

\* clearLogs has just emptied a log while recording, after at least two
\* entries had been created
C25_Witness ==
    /\ lastOp = "clearLogs"
    /\ isRecording
    /\ logs = <<>>
    /\ logIdCounter = 0
    /\ lastId >= 1

\* the ids of the retained entries are consecutive and ascending, and the
\* last of them is logIdCounter - 1
C26_IdsConsecutive ==
    /\ \A i \in 1..(Len(logs) - 1) : logs[i + 1].id = logs[i].id + 1
    /\ Len(logs) > 0 => logs[Len(logs)].id = logIdCounter - 1

\* C26: in every reachable state the ids of the retained entries are
\* consecutive integers in ascending log order and, when the log is not
\* empty, the last entry's id is logIdCounter - 1; logIdCounter counts the
\* entries created since the last startRecording or clearLogs: these two
\* set it to 0, every other operation adds the number of entries it created.
C26_CounterAndIds ==
    [][ /\ C26_IdsConsecutive'
        /\ logIdCounter' = IF lastOp' \in {"startRecording", "clearLogs"} THEN 0
                           ELSE logIdCounter + Len(created') ]_vars

\* a log of at least two entries whose oldest entries were evicted
C26_Witness ==
    /\ Len(logs) >= 2
    /\ logs[1].id > 0
    /\ logs[Len(logs)].id = logIdCounter - 1
    /\ lastOp \in AppendOps

-----------------------------------------------------------------------------
(* Properties of the frame stream, checked under SpecStream *)

\* C23: no decode condition stops the stream: while recording, every
\* logCanFrame call, whatever the identifier and the payload of 0..8 bytes
\* (too short, a command without decoder, status bytes out of range),
\* appends exactly one entry, with the next id, after the entries already
\* logged; this holds for the frames that follow as well.
C23_StreamContinues ==
    [][ /\ Len(created') = 1
        /\ logs' = Append(logs, created'[1])
        /\ created'[1].id = logIdCounter
        /\ logIdCounter' = logIdCounter + 1
        /\ isRecording' ]_vars

\* three frames were logged one after the other: an empty payload, a
\* command without decoder and a frame with status bytes out of range
C23_Witness ==
    /\ Len(logs) = 3
    /\ logs[1].parsedValue = InsufficientData
    /\ logs[2].parsedValue.text = "Raw: %s"
    /\ logs[3].parsedValue.names = <<"Unknown", "Unknown", "Unknown">>

-----------------------------------------------------------------------------
(* Properties of the adapter framer, checked under SpecFramer *)

\* every well-formed frame that follows a damaged one in a stream that has
\* been consumed to its end is among the frames produced
C24_LaterFrameEmitted ==
    (frameOut.kind = "framer" /\ frameOut.rest = <<>>) =>
        \A i \in 1..Len(frameIn.pieces) : \A j \in 1..Len(frameIn.pieces) :
            (i < j /\ frameIn.pieces[i].kind = "bad" /\ frameIn.pieces[j].kind = "good")
               => \E k \in 1..Len(frameOut.frames) :
                     frameOut.frames[k] = frameIn.pieces[j].frame

\* C24: when the checksum of a candidate adapter frame does not match, the
\* candidate is discarded without a CAN frame being produced and scanning
\* resumes at the byte following its sync byte; a well-formed frame that
\* comes later in the stream is still produced once the stream is consumed.
C24_ChecksumMismatch ==
    [][ /\ frameOut'.step = "mismatch" =>
              /\ frameOut'.frames = frameOut.frames
              /\ frameOut'.rest = Tail(frameOut.rest)
              /\ Head(frameOut.rest) = SyncByte
        /\ C24_LaterFrameEmitted' ]_vars

\* a stream whose damaged frame reached over the well-formed frame behind it
\* was consumed, after a mismatch, and that frame was produced
C24_Witness ==
    /\ frameOut.kind = "framer"
    /\ frameOut.rest = <<>>
    /\ Len(frameIn.pieces) = 2
    /\ frameIn.pieces[1].kind = "bad"
    /\ frameIn.pieces[1].bytes[HeaderLen] = 8
    /\ frameIn.pieces[2].kind = "good"
    /\ frameOut.frames = <<frameIn.pieces[2].frame>>

-----------------------------------------------------------------------------
(* Properties of bmsStore, checked under SpecBms *)

\* every connect() and disconnect() call has returned
C27_Returned == \A c \in pending : c.op = "fetch"

\* C27: at most one 'can-frame' listener is registered at any time, so each
\* CAN frame event adds at most one log entry, and every listener a connect()
\* registered is removed by a later disconnect(): once all connect() and
\* disconnect() calls have returned with connected false, none is left, for
\* every interleaving, two overlapping connect() calls and a disconnect()
\* during the await of listen() included.
C27_OneListener ==
    [][ /\ Cardinality(listeners') <= 1
        /\ logIdCounter' <= logIdCounter + 1
        /\ (C27_Returned' /\ ~connected') => listeners' = {} ]_vars

\* C28: after disconnect() has completed, and until the next successful
\* connect(), connected is false and every telemetry field of bmsData is
\* null, also when a fetchBmsData call was awaiting the backend during the
\* disconnect and when the backend's 'disconnect' call fails.
C28_DisconnectedAndNull ==
    lastLink = "disconnect" => (~connected /\ bmsData = 0)

\* C29: at most one polling timer exists, and one is active only while
\* connected is true: once every connect() and disconnect() call has
\* returned with connected false, no polling timer remains.
C29_PollingOnlyConnected ==
    /\ Cardinality(timers) <= 1
    /\ (\A c \in pending : c.op = "fetch") /\ ~connected => timers = {}

\* C30: when polls overlap, the response to an earlier fetch never
\* overwrites data written by a later fetch: each response written to
\* bmsData belongs to a fetch issued after the one whose data it replaces.
C30_LatestFetchWins ==
    [][ (bmsData' # bmsData /\ bmsData' # 0) => bmsData' > bmsData ]_vars

====
